---- MODULE Spec2Model ----
(***************************************************************************)
(* A model of the METAR viewer: the decoding functions of src/utils.ts,    *)
(* the two data-retrieval variants (direct CheckWX access and access       *)
(* through the proxy function) and the getMetar workflow of the            *)
(* MetarViewer component.                                                  *)
(*                                                                         *)
(* Conventions                                                             *)
(*  - A JavaScript string is a sequence of pieces.  Text that comes from   *)
(*    outside (remarks, the miles string) is a sequence of one-character   *)
(*    pieces; a literal of the code is one piece; a number is rendered as  *)
(*    its decimal digits, one piece per character.                         *)
(*  - An optional field is a sequence: <<>> when absent (undefined),       *)
(*    <<v>> when present.                                                  *)
(*  - miles_float is kept in hundredths of a statute mile, barometer.hg in *)
(*    hundredths of an inch of mercury, times in milliseconds relative to  *)
(*    a reference instant.                                                 *)
(*  - NaN is the absent number <<>>; a finite number n is <<n>>.           *)
(***************************************************************************)
EXTENDS Integers, Sequences, FiniteSets, TLC

VARIABLES
    call,               \* the function call under examination and its arguments
    ret,                \* what that call returned
    apiVariant,         \* which '../api' module the build bundles
    apiKeySet,          \* whether the API key is configured
    icaoInput,          \* MetarViewer refs
    isLoadingMetar,
    isLoadingLocation,
    errorMessage,
    metarData,
    nearbyAirports,
    showNearbyAirports,
    pending,            \* the getMetar call awaiting fetchMetar, or the call that
                        \* has just finished and what the network answered it
    awaiting,           \* number of getMetar calls awaiting fetchMetar
    locating,           \* the getLocationAndFindNearby call under way or just ended
    requests            \* number of network requests issued so far

utilVars == <<call, ret>>
viewVars == <<apiVariant, apiKeySet, icaoInput, isLoadingMetar, isLoadingLocation,
              errorMessage, metarData, nearbyAirports, showNearbyAirports,
              pending, awaiting, locating, requests>>
vars == <<call, ret, apiVariant, apiKeySet, icaoInput, isLoadingMetar,
          isLoadingLocation, errorMessage, metarData, nearbyAirports,
          showNearbyAirports, pending, awaiting, locating, requests>>

----------------------------------------------------------------------------
(* Values *)

Absent == <<>>
Some(v) == <<v>>
IsPresent(o) == Len(o) > 0
\* JavaScript truthiness of an optional number: undefined and 0 are falsy.
TruthyNum(o) == Len(o) > 0 /\ o[1] # 0
NaN == <<>>
IsNaN(n) == Len(n) = 0

\* What a dereference of undefined raises.
TypeError == <<"TypeError: Cannot read properties of undefined">>

DigitChars == <<"0", "1", "2", "3", "4", "5", "6", "7", "8", "9">>
IsDigit(c) == c \in {DigitChars[i] : i \in 1..10}
DigitValue(c) == (CHOOSE i \in 1..10 : DigitChars[i] = c) - 1

RECURSIVE NatToString(_)
\* Number.prototype.toString of a non-negative integer.
NatToString(n) == IF n < 10 THEN <<DigitChars[n + 1]>>
                  ELSE NatToString(n \div 10) \o <<DigitChars[(n % 10) + 1]>>

\* Template-literal rendering `${n}` of an integer.
NumToString(n) == IF n < 0 THEN <<"-">> \o NatToString(-n) ELSE NatToString(n)

\* s.padStart(2, '0') of a rendered non-negative integer.
PadStart2(n) == IF n < 10 THEN <<"0">> \o NatToString(n) ELSE NatToString(n)

\* (h / 100).toFixed(2) for a non-negative number given in hundredths.
ToFixed2(h) == NatToString(h \div 100) \o <<".">> \o PadStart2(h % 100)

\* (t / 10).toFixed(1) for a non-negative number given in tenths.
ToFixed1(t) == NatToString(t \div 10) \o <<".">> \o NatToString(t % 10)

\* String.prototype.includes
Includes(s, needle) ==
    \E i \in 0..(Len(s) - Len(needle)) :
        \A j \in 1..Len(needle) : s[i + j] = needle[j]

\* String.prototype.startsWith
StartsWith(s, prefix) ==
    /\ Len(s) >= Len(prefix)
    /\ \A j \in 1..Len(prefix) : s[j] = prefix[j]

\* String.prototype.substring(from) and substring(from, to), 0-based.
Substring(s, from, to) ==
    LET f == IF from > Len(s) THEN Len(s) ELSE from
        t == IF to > Len(s) THEN Len(s) ELSE to
    IN  IF f >= t THEN <<>> ELSE SubSeq(s, f + 1, t)

RECURSIVE DigitsValue(_)
\* the value of a run of decimal digits (0 for the empty run)
DigitsValue(ds) == IF Len(ds) = 0 THEN 0
                   ELSE 10 * DigitsValue(SubSeq(ds, 1, Len(ds) - 1))
                        + DigitValue(ds[Len(ds)])

RECURSIVE LeadingDigits(_)
\* the longest prefix of s made of decimal digits
LeadingDigits(s) == IF Len(s) = 0 \/ ~IsDigit(s[1]) THEN <<>>
                    ELSE <<s[1]>> \o LeadingDigits(Tail(s))

RECURSIVE SkipSpaces(_)
SkipSpaces(s) == IF Len(s) > 0 /\ s[1] = " " THEN SkipSpaces(Tail(s)) ELSE s

\* the lower-case letters that occur in the inputs, and their upper-case forms
LowerChars == <<"k", "l", "a", "x", "v", "f", "r", "i">>
UpperChars == <<"K", "L", "A", "X", "V", "F", "R", "I">>

\* String.prototype.toUpperCase
toUpperCase(s) ==
    [i \in 1..Len(s) |->
        IF \E k \in 1..Len(LowerChars) : LowerChars[k] = s[i]
        THEN UpperChars[CHOOSE k \in 1..Len(LowerChars) : LowerChars[k] = s[i]]
        ELSE s[i]]

----------------------------------------------------------------------------
(* Dates.  A timestamp string is [kind, ms]: kind tells how the text is    *)
(* written, ms the instant its date and time fields denote when read as    *)
(* UTC.                                                                    *)
(*   "isoZ"        2024-01-01T12:00:00Z        ends with Z, parses         *)
(*   "isoNoZone"   2024-01-01T12:00:00         parses once Z is appended   *)
(*   "isoOffset"   2024-01-01T12:00:00+02:00   no longer parses with a Z   *)
(*                                             appended after the offset   *)
(*   "garbage"     n/a                         never parses                *)
(*   "garbageZ"    n/aZ                        ends with Z, never parses   *)

TimestampKinds == {"isoZ", "isoNoZone", "isoOffset", "garbage", "garbageZ"}

\* observedTimeString.endsWith('Z')
EndsWithZ(s) == s.kind \in {"isoZ", "garbageZ"}

\* observedTimeString + 'Z'
AppendZ(s) == [kind |-> s.kind, ms |-> s.ms, zAppended |-> TRUE]
AsWritten(s) == [kind |-> s.kind, ms |-> s.ms, zAppended |-> FALSE]

\* a Date that reads a time with an offset and a Z after it by its offset.
DateParseOffsetZ(u) ==
    IF \/ (u.kind = "isoZ" /\ ~u.zAppended)
       \/ (u.kind \in {"isoNoZone", "isoOffset"} /\ u.zAppended)
    THEN Some(u.ms)
    ELSE NaN

\* new Date(utcString).getTime(): NaN when the text is no date.
DateParse(u) ==
    IF \/ (u.kind = "isoZ" /\ ~u.zAppended)
       \/ (u.kind = "isoNoZone" /\ u.zAppended)
    THEN Some(u.ms)
    ELSE NaN

MsPerMinute == 60000
MsPerHour == 3600000

\* Math.round(x / d) for d > 0: halves round towards +infinity.
MathRoundDiv(x, d) == (2 * x + d) \div (2 * d)

MathMax(a, b) == IF a >= b THEN a ELSE b

\* calculateReportAge without the floor at zero: a variant that returns the signed
\* difference.
calculateReportAgeSigned(observedTimeString, now) ==
    LET utcString == IF EndsWithZ(observedTimeString)
                     THEN AsWritten(observedTimeString)
                     ELSE AppendZ(observedTimeString)
        observedTime == DateParse(utcString)
    IN  IF IsNaN(observedTime) THEN 0
        ELSE MathRoundDiv(now - observedTime[1], MsPerMinute)

calculateReportAge(observedTimeString, now) ==
    LET utcString == IF EndsWithZ(observedTimeString)
                     THEN AsWritten(observedTimeString)
                     ELSE AppendZ(observedTimeString)
        observedTime == DateParse(utcString)
    IN  IF IsNaN(observedTime) THEN 0
        ELSE LET diffMs == now - observedTime[1]
                 ageMinutes == MathRoundDiv(diffMs, MsPerMinute)
             IN  MathMax(0, ageMinutes)

\* tzOffsetMs is the offset of the machine's local time from UTC.
formatObservedTime(observedTimeString, tzOffsetMs) ==
    LET utcString == IF EndsWithZ(observedTimeString)
                     THEN AsWritten(observedTimeString)
                     ELSE AppendZ(observedTimeString)
        date == DateParse(utcString)
    IN  IF IsNaN(date) THEN <<"Invalid Date">>
        ELSE LET localMs == date[1] + tzOffsetMs
                 localHours == (localMs \div MsPerHour) % 24
                 localMinutes == (localMs \div MsPerMinute) % 60
                 hours12 == IF localHours % 12 = 0 THEN 12 ELSE localHours % 12
                 ampm == IF localHours >= 12 THEN "PM" ELSE "AM"
                 localTimeString == NumToString(hours12) \o <<":">>
                                    \o PadStart2(localMinutes) \o <<" ", ampm>>
                 utcHours == (date[1] \div MsPerHour) % 24
                 utcMinutes == (date[1] \div MsPerMinute) % 60
                 utcTimeString == PadStart2(utcHours) \o <<":">>
                                  \o PadStart2(utcMinutes) \o <<"Z">>
             IN  localTimeString \o <<" (Local) / ">> \o utcTimeString

----------------------------------------------------------------------------
(* Field formatters *)

GustSuffix(w) ==
    IF TruthyNum(w.gust_kts)
    THEN <<", gusting to ">> \o NumToString(w.gust_kts[1]) \o <<" knots">>
    ELSE <<>>

\* formatWind returning the composed string before it looks for calm wind when a
\* gust is reported.
formatWindGustFirst(wind) ==
    IF ~IsPresent(wind) THEN <<"Variable, Calm">>
    ELSE LET w == wind[1]
             windStr == NumToString(w.degrees) \o <<"° at ">>
                        \o NumToString(w.speed_kts) \o <<" knots">>
                        \o GustSuffix(w)
         IN  IF TruthyNum(w.gust_kts) THEN windStr
             ELSE IF w.degrees = 0 /\ w.speed_kts = 0 THEN <<"Calm">>
             ELSE IF w.degrees = 0
                  THEN <<"Variable at ">> \o NumToString(w.speed_kts) \o <<" knots">>
                  ELSE windStr

formatWind(wind) ==
    IF ~IsPresent(wind) THEN <<"Variable, Calm">>
    ELSE LET w == wind[1]
             windStr == NumToString(w.degrees) \o <<"° at ">>
                        \o NumToString(w.speed_kts) \o <<" knots">>
                        \o GustSuffix(w)
         IN  IF w.degrees = 0 /\ w.speed_kts = 0 THEN <<"Calm">>
             ELSE IF w.degrees = 0
                  THEN <<"Variable at ">> \o NumToString(w.speed_kts)
                       \o <<" knots">> \o GustSuffix(w)
                  ELSE windStr

\* The first two fraction digits of a digit run, as hundredths.
Hundredths(frac) ==
    IF Len(frac) = 0 THEN 0
    ELSE IF Len(frac) = 1 THEN 10 * DigitValue(frac[1])
    ELSE 10 * DigitValue(frac[1]) + DigitValue(frac[2])

\* parseFloat(text), in hundredths: leading white space, an optional sign, digits,
\* an optional fraction; whatever follows is ignored; NaN when no digit is found.
parseFloat(text) ==
    LET s == SkipSpaces(text)
        neg == Len(s) > 0 /\ s[1] = "-"
        t == IF Len(s) > 0 /\ s[1] \in {"-", "+"} THEN Tail(s) ELSE s
        int == LeadingDigits(t)
        afterInt == SubSeq(t, Len(int) + 1, Len(t))
        frac == IF Len(afterInt) > 0 /\ afterInt[1] = "."
                THEN LeadingDigits(Tail(afterInt))
                ELSE <<>>
        magnitude == 100 * DigitsValue(int) + Hundredths(frac)
    IN  IF Len(int) = 0 /\ Len(frac) = 0 THEN NaN
        ELSE Some(IF neg THEN -magnitude ELSE magnitude)

\* formatVisibility with the override above 10 miles only (miles > 10).
formatVisibilityAbove(visibility) ==
    IF ~IsPresent(visibility) THEN <<"Not Reported">>
    ELSE LET v == visibility[1]
             miles == IF IsPresent(v.miles_float) THEN Some(v.miles_float[1])
                      ELSE parseFloat(v.miles)
             visStr == IF miles[1] > 1000
                       THEN <<"10+ statute miles (Clear)">>
                       ELSE v.miles \o <<" statute mile(s)">>
         IN  IF IsNaN(miles) THEN <<"Not Reported">>
             ELSE IF TruthyNum(v.meters_float)
                  THEN visStr \o <<" (">> \o NumToString(v.meters_float[1])
                       \o <<" meters)">>
                  ELSE visStr

formatVisibility(visibility) ==
    IF ~IsPresent(visibility) THEN <<"Not Reported">>
    ELSE LET v == visibility[1]
             miles == IF IsPresent(v.miles_float) THEN Some(v.miles_float[1])
                      ELSE parseFloat(v.miles)
             visStr == IF miles[1] >= 1000
                       THEN <<"10+ statute miles (Clear)">>
                       ELSE v.miles \o <<" statute mile(s)">>
         IN  IF IsNaN(miles) THEN <<"Not Reported">>
             ELSE IF TruthyNum(v.meters_float)
                  THEN visStr \o <<" (">> \o NumToString(v.meters_float[1])
                       \o <<" meters)">>
                  ELSE visStr

\* `${x}` of an optional number
OptNumToString(o) == IF IsPresent(o) THEN NumToString(o[1]) ELSE <<"undefined">>

LayerStr(layer) ==
    IF TruthyNum(layer.base_feet_agl)
    THEN <<layer.text>> \o <<" at ">> \o NumToString(layer.base_feet_agl[1])
         \o <<" ft AGL">>
    ELSE <<layer.text>>

RECURSIVE Join(_, _)
\* Array.prototype.join(sep)
Join(strs, sep) ==
    IF Len(strs) = 0 THEN <<>>
    ELSE IF Len(strs) = 1 THEN strs[1]
    ELSE strs[1] \o sep \o Join(Tail(strs), sep)

formatCeilingAndClouds(ceiling, clouds) ==
    LET layers == IF IsPresent(clouds) /\ Len(clouds[1]) > 0
                  THEN [i \in 1..Len(clouds[1]) |-> LayerStr(clouds[1][i])]
                  ELSE <<>>
        hasCeiling == IsPresent(ceiling) /\ TruthyNum(ceiling[1].base_feet_agl)
        needle == OptNumToString(ceiling[1].base_feet_agl) \o <<" ft AGL">>
        ceilingDesc == <<ceiling[1].text>> \o <<" at ">>
                       \o OptNumToString(ceiling[1].base_feet_agl)
                       \o <<" ft AGL">> \o <<" (Ceiling)">>
        hits == {i \in 1..Len(layers) : Includes(layers[i], needle)}
        index == CHOOSE i \in hits : \A j \in hits : i <= j
        reportedLayers ==
            IF ~hasCeiling THEN layers
            ELSE IF hits = {} THEN Append(layers, ceilingDesc)
            ELSE [layers EXCEPT ![index] = @ \o <<" (Ceiling)">>]
    IN  IF Len(reportedLayers) > 0 THEN Join(reportedLayers, <<"; ">>)
        ELSE IF IsPresent(ceiling) THEN ceilingDesc
        ELSE <<"Clear below 12,000 ft">>

\* formatTempDew without its guard: reading temp.celsius of undefined raises.
formatTempDewUnguarded(temp) ==
    IF ~IsPresent(temp) THEN TypeError
    ELSE NumToString(temp[1].celsius) \o <<"°C (">>
         \o NumToString(temp[1].fahrenheit) \o <<"°F)">>

formatTempDew(temp) ==
    IF ~IsPresent(temp) THEN <<"N/A">>
    ELSE NumToString(temp[1].celsius) \o <<"°C (">>
         \o NumToString(temp[1].fahrenheit) \o <<"°F)">>

\* formatAltimeter answering an absent barometer as formatVisibility answers an
\* absent visibility.
formatAltimeterNotReported(barometer) ==
    IF ~IsPresent(barometer) THEN <<"Not Reported">>
    ELSE IF TruthyNum(barometer[1].hg)
         THEN ToFixed2(barometer[1].hg[1]) \o <<" inHg (">>
              \o NumToString(barometer[1].hpa) \o <<" hPa)">>
         ELSE NumToString(barometer[1].hpa) \o <<" hPa">>

formatAltimeter(barometer) ==
    IF ~IsPresent(barometer) THEN <<"N/A">>
    ELSE IF TruthyNum(barometer[1].hg)
         THEN ToFixed2(barometer[1].hg[1]) \o <<" inHg (">>
              \o NumToString(barometer[1].hpa) \o <<" hPa)">>
         ELSE NumToString(barometer[1].hpa) \o <<" hPa">>

----------------------------------------------------------------------------
(* Flight category *)

\* visibility?.miles_float ?? 99, in hundredths of a mile
VisMiles(visibility) ==
    IF IsPresent(visibility) /\ IsPresent(visibility[1].miles_float)
    THEN visibility[1].miles_float[1]
    ELSE 9900

\* ceiling?.base_feet_agl ?? 99999
CeilFeet(ceiling) ==
    IF IsPresent(ceiling) /\ IsPresent(ceiling[1].base_feet_agl)
    THEN ceiling[1].base_feet_agl[1]
    ELSE 99999

\* determineFlightCategory with exclusive lower bounds (> for >=).
determineFlightCategoryExclusive(visibility, ceiling) ==
    LET visMiles == VisMiles(visibility)
        ceilFeet == CeilFeet(ceiling)
    IN  IF visMiles > 500 /\ ceilFeet > 3000 THEN "VFR"
        ELSE IF visMiles > 300 /\ ceilFeet > 1000 THEN "MVFR"
        ELSE IF visMiles > 100 /\ ceilFeet > 500 THEN "IFR"
        ELSE IF visMiles < 100 \/ ceilFeet < 500 THEN "LIFR"
        ELSE "Unknown"

\* determineFlightCategory whose last test asks for both values to be low (&&
\* for ||).
determineFlightCategoryBothLow(visibility, ceiling) ==
    LET visMiles == VisMiles(visibility)
        ceilFeet == CeilFeet(ceiling)
    IN  IF visMiles >= 500 /\ ceilFeet >= 3000 THEN "VFR"
        ELSE IF visMiles >= 300 /\ ceilFeet >= 1000 THEN "MVFR"
        ELSE IF visMiles >= 100 /\ ceilFeet >= 500 THEN "IFR"
        ELSE IF visMiles < 100 /\ ceilFeet < 500 THEN "LIFR"
        ELSE "Unknown"

determineFlightCategory(visibility, ceiling) ==
    LET visMiles == VisMiles(visibility)
        ceilFeet == CeilFeet(ceiling)
    IN  IF visMiles >= 500 /\ ceilFeet >= 3000 THEN "VFR"
        ELSE IF visMiles >= 300 /\ ceilFeet >= 1000 THEN "MVFR"
        ELSE IF visMiles >= 100 /\ ceilFeet >= 500 THEN "IFR"
        ELSE IF visMiles < 100 \/ ceilFeet < 500 THEN "LIFR"
        ELSE "Unknown"

----------------------------------------------------------------------------
(* Remarks *)

RECURSIVE SplitOnSpace(_)
\* remarksString.split(' '): consecutive spaces give empty parts
SplitOnSpace(s) ==
    IF \A i \in 1..Len(s) : s[i] # " " THEN <<s>>
    ELSE LET k == CHOOSE i \in 1..Len(s) :
                      s[i] = " " /\ \A j \in 1..(i - 1) : s[j] # " "
         IN  <<SubSeq(s, 1, k - 1)>> \o SplitOnSpace(SubSeq(s, k + 1, Len(s)))

AllDigits(s) == \A i \in 1..Len(s) : IsDigit(s[i])

\* /^\d+$/.test(s)
IsDigitRun(s) == Len(s) > 0 /\ AllDigits(s)

\* parseInt(text, 10): leading white space, an optional sign, then digits; NaN when
\* no digit is found.
parseInt(text) ==
    LET s == SkipSpaces(text)
        neg == Len(s) > 0 /\ s[1] = "-"
        t == IF Len(s) > 0 /\ s[1] \in {"-", "+"} THEN Tail(s) ELSE s
        ds == LeadingDigits(t)
    IN  IF Len(ds) = 0 THEN NaN
        ELSE Some(IF neg THEN -DigitsValue(ds) ELSE DigitsValue(ds))

\* (n / 10).toFixed(1) of a number that may be NaN or negative
TenthsToFixed1(n) ==
    IF IsNaN(n) THEN <<"NaN">>
    ELSE IF n[1] < 0 THEN <<"-">> \o ToFixed1(-n[1])
    ELSE ToFixed1(n[1])

\* /^(\d+\/?\d*)$/ on a text
IsFractionOrInt(s) ==
    LET lead == LeadingDigits(s)
        rest == SubSeq(s, Len(lead) + 1, Len(s))
    IN  /\ Len(lead) > 0
        /\ \/ AllDigits(rest)
           \/ (Len(rest) > 0 /\ rest[1] = "/" /\ AllDigits(Tail(rest)))

PeakWindPrefix == <<"P", "K", " ", "W", "N", "D", " ">>
VisPrefix == <<"V", "I", "S", " ">>

\* part.match(/^PK WND (\d{3})(\d{2,3})\/(\d{2})(\d{2})$/)
MatchesPeakWind(part) ==
    /\ StartsWith(part, PeakWindPrefix)
    /\ LET rest == SubSeq(part, Len(PeakWindPrefix) + 1, Len(part))
           lead == LeadingDigits(rest)
           after == SubSeq(rest, Len(lead) + 1, Len(rest))
       IN  /\ Len(lead) \in {5, 6}
           /\ Len(after) = 5
           /\ after[1] = "/"
           /\ AllDigits(Tail(after))

\* part.match(/^VIS (\d+\/?\d*V\d+\/?\d*)$/)
MatchesVariableVis(part) ==
    /\ StartsWith(part, VisPrefix)
    /\ LET rest == SubSeq(part, Len(VisPrefix) + 1, Len(part))
       IN  \E k \in 1..Len(rest) :
               /\ rest[k] = "V"
               /\ IsFractionOrInt(SubSeq(rest, 1, k - 1))
               /\ IsFractionOrInt(SubSeq(rest, k + 1, Len(rest)))

\* match[1].replace('V', ' and '): the first V only
ReplaceFirstV(s) ==
    LET k == CHOOSE i \in 1..Len(s) : s[i] = "V" /\ \A j \in 1..(i - 1) : s[j] # "V"
    IN  SubSeq(s, 1, k - 1) \o <<" and ">> \o SubSeq(s, k + 1, Len(s))

\* an assignment that leaves a key alone once it is set.
PutOnce(decoded, key, value) ==
    IF \E i \in 1..Len(decoded) : decoded[i].key = key
    THEN decoded
    ELSE Append(decoded, [key |-> key, value |-> value])

\* decoded[key] = value on an object whose keys keep their insertion order
Put(decoded, key, value) ==
    IF \E i \in 1..Len(decoded) : decoded[i].key = key
    THEN [i \in 1..Len(decoded) |->
             IF decoded[i].key = key THEN [key |-> key, value |-> value]
             ELSE decoded[i]]
    ELSE Append(decoded, [key |-> key, value |-> value])

\* the SLP rule with its threshold moved: 500 itself still taken for the
\* 1000s decade (<= for <).
SeaLevelPressureInclusive(part) ==
    LET slpDigits == Substring(part, 3, Len(part))
    IN  IF IsDigitRun(slpDigits)
        THEN ToFixed1(DigitsValue(slpDigits)
                      + (IF DigitsValue(slpDigits) <= 500 THEN 10000 ELSE 9000))
             \o <<" hPa">>
        ELSE <<"Unknown format (">> \o part \o <<")">>

\* the SLP rule taking an empty remainder for a run of digits (/^\d*$/ for /^\d+$/).
SeaLevelPressureEmptyRun(part) ==
    LET slpDigits == Substring(part, 3, Len(part))
    IN  IF AllDigits(slpDigits)
        THEN ToFixed1(DigitsValue(slpDigits)
                      + (IF DigitsValue(slpDigits) < 500 THEN 10000 ELSE 9000))
             \o <<" hPa">>
        ELSE <<"Unknown format (">> \o part \o <<")">>

\* what the SLP rule stores: pressureValue / 10 + (pressureValue < 500 ? 1000 : 900)
\* to one decimal, kept in tenths of a hectopascal
SeaLevelPressure(part) ==
    LET slpDigits == Substring(part, 3, Len(part))
    IN  IF IsDigitRun(slpDigits)
        THEN ToFixed1(DigitsValue(slpDigits)
                      + (IF DigitsValue(slpDigits) < 500 THEN 10000 ELSE 9000))
             \o <<" hPa">>
        ELSE <<"Unknown format (">> \o part \o <<")">>

\* the T rule reading both signs from offset 1.
PreciseTempDewpointOneSign(part) ==
    <<"Temp: ">> \o (IF part[2] = "1" THEN <<"-">> ELSE <<>>)
    \o TenthsToFixed1(parseInt(Substring(part, 2, 5)))
    \o <<"°C, Dewpoint: ">> \o (IF part[2] = "1" THEN <<"-">> ELSE <<>>)
    \o TenthsToFixed1(parseInt(Substring(part, 6, 9)))
    \o <<"°C">>

\* the T rule taking the sign character '0' for the minus sign.
PreciseTempDewpointZeroMinus(part) ==
    <<"Temp: ">> \o (IF part[2] = "0" THEN <<"-">> ELSE <<>>)
    \o TenthsToFixed1(parseInt(Substring(part, 2, 5)))
    \o <<"°C, Dewpoint: ">> \o (IF part[6] = "1" THEN <<"-">> ELSE <<>>)
    \o TenthsToFixed1(parseInt(Substring(part, 6, 9)))
    \o <<"°C">>

\* what the T rule stores: part[1] and part[5] are the signs, substring(2, 5)
\* and substring(6, 9) the magnitudes in tenths
PreciseTempDewpoint(part) ==
    <<"Temp: ">> \o (IF part[2] = "1" THEN <<"-">> ELSE <<>>)
    \o TenthsToFixed1(parseInt(Substring(part, 2, 5)))
    \o <<"°C, Dewpoint: ">> \o (IF part[6] = "1" THEN <<"-">> ELSE <<>>)
    \o TenthsToFixed1(parseInt(Substring(part, 6, 9)))
    \o <<"°C">>

\* the rules of the loop body, in the order of its if / else-if chain
RuleOrder == <<"AO1", "AO2", "SLP", "T", "PK WND", "VIS">>

\* the T rule without its test of the first character.
RuleHoldsAnyNine(rule, part) ==
    CASE rule = "AO1" -> part = <<"A", "O", "1">>
      [] rule = "AO2" -> part = <<"A", "O", "2">>
      [] rule = "SLP" -> StartsWith(part, <<"S", "L", "P">>)
      [] rule = "T" -> Len(part) = 9
      [] rule = "PK WND" -> MatchesPeakWind(part)
      [] rule = "VIS" -> MatchesVariableVis(part)

\* the condition of each rule
RuleHolds(rule, part) ==
    CASE rule = "AO1" -> part = <<"A", "O", "1">>
      [] rule = "AO2" -> part = <<"A", "O", "2">>
      [] rule = "SLP" -> StartsWith(part, <<"S", "L", "P">>)
      [] rule = "T" -> StartsWith(part, <<"T">>) /\ Len(part) = 9
      [] rule = "PK WND" -> MatchesPeakWind(part)
      [] rule = "VIS" -> MatchesVariableVis(part)

\* the assignment each rule makes
RuleApply(rule, decoded, part) ==
    CASE rule = "AO1" ->
             Put(decoded, "AutomatedObservationType",
                 <<"Automated station without precipitation discriminator">>)
      [] rule = "AO2" ->
             Put(decoded, "AutomatedObservationType",
                 <<"Automated station with precipitation discriminator">>)
      [] rule = "SLP" -> Put(decoded, "SeaLevelPressure", SeaLevelPressure(part))
      [] rule = "T" -> Put(decoded, "PreciseTempDewpoint", PreciseTempDewpoint(part))
      [] rule = "PK WND" ->
             Put(decoded, "PeakWind",
                 <<"Peak wind ">>
                 \o SubSeq(part, Len(PeakWindPrefix) + 1, Len(PeakWindPrefix) + 3)
                 \o <<"° at ">>
                 \o SubSeq(part, Len(PeakWindPrefix) + 4, Len(part) - 5)
                 \o <<" knots occurred at ">>
                 \o SubSeq(part, Len(part) - 3, Len(part)) \o <<" Zulu">>)
      [] rule = "VIS" ->
             Put(decoded, "VariableVisibility",
                 <<"Visibility variable between ">>
                 \o ReplaceFirstV(SubSeq(part, Len(VisPrefix) + 1, Len(part)))
                 \o <<" statute miles">>)

RECURSIVE DecodePartIn(_, _, _)
\* the if / else-if chain with its rules tried in the given order: the first rule
\* whose condition holds makes its assignment, the others are skipped
DecodePartIn(order, decoded, part) ==
    IF Len(order) = 0 THEN decoded
    ELSE IF RuleHolds(order[1], part) THEN RuleApply(order[1], decoded, part)
    ELSE DecodePartIn(Tail(order), decoded, part)

\* one iteration of the loop over the parts
DecodePart(decoded, part) == DecodePartIn(RuleOrder, decoded, part)

RECURSIVE DecodePartsIn(_, _, _)
DecodePartsIn(order, decoded, parts) ==
    IF Len(parts) = 0 THEN decoded
    ELSE DecodePartsIn(order, DecodePartIn(order, decoded, parts[1]), Tail(parts))

\* the loop `for (const part of parts)`
DecodeParts(decoded, parts) == DecodePartsIn(RuleOrder, decoded, parts)

\* A string is falsy exactly when it is undefined or empty.
TruthyStr(o) == IsPresent(o) /\ Len(o[1]) > 0

\* parts.filter(p => p !== '')
NonEmptyParts(parts) == SelectSeq(parts, LAMBDA q : Len(q) > 0)

\* decodeRemarks echoing the remarks with their white space normalised: the
\* non-empty parts joined by single spaces.
decodeRemarksNormalised(remarksString) ==
    IF ~TruthyStr(remarksString)
    THEN [plainLanguage |-> <<"No Remarks">>, decoded |-> <<>>]
    ELSE [plainLanguage |->
              Join(NonEmptyParts(SplitOnSpace(remarksString[1])), <<" ">>),
          decoded |-> DecodeParts(<<>>, SplitOnSpace(remarksString[1]))]

decodeRemarks(remarksString) ==
    LET plainLanguage == IF TruthyStr(remarksString) THEN remarksString[1]
                         ELSE <<"No Remarks">>
    IN  IF ~TruthyStr(remarksString)
        THEN [plainLanguage |-> plainLanguage, decoded |-> <<>>]
        ELSE [plainLanguage |-> plainLanguage,
              decoded |-> DecodeParts(<<>>, SplitOnSpace(remarksString[1]))]

----------------------------------------------------------------------------
(* processMetarData.  An observation is [tag |-> "null"], [tag |-> "undefined"] *)
(* or [tag |-> "object", ...] with the fields of CheckWxMetar.  The result is   *)
(* [tag |-> "null"], [tag |-> "record", ...] with exactly the properties the    *)
(* object literal sets, or [tag |-> "throw"] when an exception escapes.         *)

\* a || b on optional strings
OrElse(a, b) == IF TruthyStr(a) THEN a[1] ELSE b

\* metar.station?.name || 'Unknown Station'
StationName(station) ==
    IF IsPresent(station) THEN OrElse(Some(station[1].name), <<"Unknown Station">>)
    ELSE <<"Unknown Station">>

\* A TypeError raised while a property of the object literal is computed escapes
\* processMetarData: nothing in it catches.
Completes(rec) ==
    IF TypeError \in {rec.wind, rec.visibility, rec.ceilingAndClouds,
                      rec.temperature, rec.dewpoint, rec.altimeter, rec.airportName}
    THEN [tag |-> "throw"]
    ELSE rec

\* flightCategory || metar.flight_category: the preference the wrong way round
PreferDerived(upstream, derived) ==
    IF derived # "" THEN derived ELSE upstream[1]

\* metar.flight_category alone, without the fallback: undefined when absent
UpstreamOnly(upstream, derived) ==
    IF IsPresent(upstream) THEN upstream[1] ELSE "undefined"

\* metar.flight_category || flightCategory
PreferUpstream(upstream, derived) ==
    IF IsPresent(upstream) /\ upstream[1] # "" THEN upstream[1] ELSE derived

processMetarData(metar, now, tzOffsetMs) ==
    IF metar.tag # "object" THEN [tag |-> "null"]
    ELSE Completes(
           [tag |-> "record",
            airportName |-> StationName(metar.station),
            icao |-> metar.icao,
            observedTime |-> formatObservedTime(metar.observed, tzOffsetMs),
            reportAgeMinutes |-> calculateReportAge(metar.observed, now),
            flightCategory |->
                PreferUpstream(metar.flight_category,
                               determineFlightCategory(metar.visibility,
                                                       metar.ceiling)),
            rawMetar |-> metar.raw_text,
            wind |-> formatWind(metar.wind),
            visibility |-> formatVisibility(metar.visibility),
            ceilingAndClouds |->
                formatCeilingAndClouds(metar.ceiling, metar.clouds),
            temperature |-> formatTempDew(metar.temperature),
            dewpoint |-> formatTempDew(metar.dewpoint),
            altimeter |-> formatAltimeter(metar.barometer),
            remarks |-> decodeRemarks(metar.remarks)])

----------------------------------------------------------------------------
(* The tag type of a flight category.  The argument is [tag |-> "null"],      *)
(* [tag |-> "undefined"] or [tag |-> "string", text |-> characters].          *)

\* getFlightCategoryTagType with the tag type 'default' in its default branch.
getFlightCategoryTagTypeDefault(category) ==
    IF category.tag # "string" THEN "default"
    ELSE LET upper == toUpperCase(category.text)
         IN  IF upper = <<"V", "F", "R">> THEN "success"
             ELSE IF upper = <<"M", "V", "F", "R">> THEN "warning"
             ELSE IF upper = <<"I", "F", "R">> THEN "error"
             ELSE IF upper = <<"L", "I", "F", "R">> THEN "error"
             ELSE "default"

\* switch (category?.toUpperCase()): null and undefined reach the default branch
getFlightCategoryTagType(category) ==
    IF category.tag # "string" THEN "info"
    ELSE LET upper == toUpperCase(category.text)
         IN  IF upper = <<"V", "F", "R">> THEN "success"
             ELSE IF upper = <<"M", "V", "F", "R">> THEN "warning"
             ELSE IF upper = <<"I", "F", "R">> THEN "error"
             ELSE IF upper = <<"L", "I", "F", "R">> THEN "error"
             ELSE "info"

\* the inline mapping of the METAR detail view; the tag is rendered only for a
\* truthy category (v-if="metarData.flightCategory"), "none" when it is not
detailTagType(category) ==
    IF category.tag # "string" \/ category.text = <<>> THEN "none"
    ELSE IF category.text = <<"V", "F", "R">> THEN "success"
    ELSE IF category.text = <<"M", "V", "F", "R">> THEN "info"
    ELSE IF category.text = <<"I", "F", "R">> THEN "warning"
    ELSE IF category.text = <<"L", "I", "F", "R">> THEN "error"
    ELSE "default"

----------------------------------------------------------------------------
(* Inputs of the decoding functions *)

\* the most tokens a remarks string of the input set is built from
MaxTokens == 3
\* the most cloud layers an observation of the input set lists
MaxLayers == 2

Winds ==
    {Absent} \cup
    {Some([degrees |-> d, speed_kts |-> s, gust_kts |-> g]) :
        d \in {0, 270}, s \in {0, 10}, g \in {Absent, Some(0), Some(25)}}

\* the miles strings "10", "1/4", "3", "15", "0.5", "P6" and ""
MilesStrings == {<<"1", "0">>, <<"1", "/", "4">>, <<"3">>, <<"1", "5">>,
                 <<"0", ".", "5">>, <<"P", "6">>, <<>>}

\* miles_float values (hundredths of a mile) around each threshold of the code
MilesFloats == {0, 25, 99, 100, 101, 299, 300, 301, 499, 500, 501,
                999, 1000, 1001, 1500}

Visibilities ==
    {Absent} \cup
    {Some([miles |-> m, miles_float |-> f, meters_float |-> e]) :
        m \in MilesStrings,
        f \in {Absent} \cup {Some(x) : x \in MilesFloats},
        e \in {Absent, Some(0), Some(16093)}}

\* base heights (feet AGL) around each threshold of the code
BaseFeet == {0, 400, 499, 500, 501, 999, 1000, 1001, 1500, 2999, 3000, 3001, 12000}

Layers ==
    {[code |-> "BKN", text |-> "Broken", base_feet_agl |-> b] :
        b \in {Absent} \cup {Some(x) : x \in BaseFeet}}

Ceilings == {Absent} \cup {Some(l) : l \in Layers}

CloudLayers ==
    {[code |-> "FEW", text |-> "Few", base_feet_agl |-> Absent],
     [code |-> "SCT", text |-> "Scattered", base_feet_agl |-> Some(1500)],
     [code |-> "BKN", text |-> "Broken", base_feet_agl |-> Some(500)]}

RECURSIVE SeqsUpTo(_, _)
\* the sequences over S of length at most n
SeqsUpTo(S, n) ==
    IF n = 0 THEN {<<>>}
    ELSE LET shorter == SeqsUpTo(S, n - 1)
         IN  shorter \cup {Append(q, x) : q \in shorter, x \in S}

CloudLists == {Absent} \cup {Some(q) : q \in SeqsUpTo(CloudLayers, MaxLayers)}

Temperatures == {Absent, Some([celsius |-> 20, fahrenheit |-> 68]),
                 Some([celsius |-> -5, fahrenheit |-> 23])}

Barometers == {Absent,
               Some([hg |-> Some(2992), hpa |-> 1013]),
               Some([hg |-> Some(3005), hpa |-> 1018]),
               Some([hg |-> Some(0), hpa |-> 1013]),
               Some([hg |-> Absent, hpa |-> 1013])}

\* remark tokens: AO1 AO2 SLP123 SLP876 SLPNO T01280067 PK WND 28045/1515 $ and
\* the empty token (two spaces in a row)
Tokens == {<<"A", "O", "1">>, <<"A", "O", "2">>,
           <<"S", "L", "P", "1", "2", "3">>, <<"S", "L", "P", "8", "7", "6">>,
           <<"S", "L", "P", "N", "O">>,
           <<"T", "0", "1", "2", "8", "0", "0", "6", "7">>,
           <<"P", "K">>, <<"W", "N", "D">>,
           <<"2", "8", "0", "4", "5", "/", "1", "5", "1", "5">>,
           <<"$">>, <<>>}

\* the most tokens of a remarks string built from the wider token set
MaxVariedTokens == 1

\* further tokens: SLP5 SLP499 SLP500 SLP000 SLP SLP123456 T10280067 T01281067
\* T11281067 T00000000 T1ABC0X67 T0-120067 TSNO VIS 1/2V2
MoreTokens == {<<"S", "L", "P", "5">>, <<"S", "L", "P", "4", "9", "9">>,
               <<"S", "L", "P", "5", "0", "0">>, <<"S", "L", "P", "0", "0", "0">>,
               <<"S", "L", "P">>,
               <<"S", "L", "P", "1", "2", "3", "4", "5", "6">>,
               <<"T", "1", "0", "2", "8", "0", "0", "6", "7">>,
               <<"T", "0", "1", "2", "8", "1", "0", "6", "7">>,
               <<"T", "1", "1", "2", "8", "1", "0", "6", "7">>,
               <<"T", "0", "0", "0", "0", "0", "0", "0", "0">>,
               <<"T", "1", "A", "B", "C", "0", "X", "6", "7">>,
               <<"T", "0", "-", "1", "2", "0", "0", "6", "7">>,
               <<"T", "S", "N", "O">>,
               <<"V", "I", "S">>, <<"1", "/", "2", "V", "2">>}

\* strings of the tokens, strings of the wider token set, and "VIS 1/2V2"
RemarksStrings ==
    {Join(q, <<" ">>) : q \in SeqsUpTo(Tokens, MaxTokens)
                             \cup SeqsUpTo(Tokens \cup MoreTokens, MaxVariedTokens)}
    \cup {VisPrefix \o <<"1", "/", "2", "V", "2">>}

Remarks == {Absent} \cup {Some(r) : r \in RemarksStrings}

\* observation instants (ms after the reference instant): 00:00:00 and 12:30:00
ObservedMs == {0, 45000000}

Timestamps == {[kind |-> k, ms |-> t] : k \in TimestampKinds, t \in ObservedMs}

\* now - observed, around the rounding points and on both sides of zero
Elapsed == {-3600000, -90000, -30001, -30000, -29999, -1, 0, 1,
            29999, 30000, 30001, 89999, 90000, 3600000}

\* local-time offsets from UTC: UTC, UTC-7, UTC+5:30
TzOffsets == {0, -25200000, 19800000}

FlightCategories == {"VFR", "MVFR", "IFR", "LIFR", "Unknown"}

\* flight_category as the CheckWxMetar declaration documents it: absent, or one
\* of VFR, MVFR, IFR, LIFR
UpstreamCategories == {Absent} \cup {Some(c) : c \in {"VFR", "MVFR", "IFR", "LIFR"}}

Stations == {Absent, Some([name |-> <<"Los Angeles Intl">>]), Some([name |-> <<>>])}

\* Observations: every combination of absent and present optional fields.
Metars ==
    {[tag |-> "object",
      icao |-> <<"KLAX">>,
      observed |-> o,
      raw_text |-> <<"KLAX 011200Z">>,
      station |-> Some([name |-> <<"Los Angeles Intl">>]),
      wind |-> w, visibility |-> v, ceiling |-> c, clouds |-> cl,
      temperature |-> t, dewpoint |-> d, humidity |-> h, barometer |-> b,
      elevation |-> e, flight_category |-> fc, remarks |-> r] :
        o \in {[kind |-> "isoNoZone", ms |-> 0]},
        w \in {Absent, Some([degrees |-> 270, speed_kts |-> 10, gust_kts |-> Absent])},
        v \in {Absent,
               Some([miles |-> <<"2">>, miles_float |-> Some(200),
                     meters_float |-> Absent])},
        c \in {Absent,
               Some([code |-> "OVC", text |-> "Overcast", base_feet_agl |-> Some(400)])},
        cl \in {Absent,
                Some(<<[code |-> "OVC", text |-> "Overcast",
                        base_feet_agl |-> Some(400)]>>)},
        t \in {Absent, Some([celsius |-> 20, fahrenheit |-> 68])},
        d \in {Absent, Some([celsius |-> 10, fahrenheit |-> 50])},
        h \in {Absent, Some([percent |-> 52])},
        b \in {Absent, Some([hg |-> Some(2992), hpa |-> 1013])},
        e \in {Absent, Some([feet |-> 1000, meters |-> 305])},
        fc \in UpstreamCategories,
        r \in {Absent, Some(<<"A", "O", "2">>)}}

\* Observations with every field present and the values varied.
VariedMetars ==
    {[tag |-> "object",
      icao |-> <<"KLAX">>,
      observed |-> o,
      raw_text |-> <<"KLAX 011200Z">>,
      station |-> s,
      wind |-> Some([degrees |-> 0, speed_kts |-> 0, gust_kts |-> Absent]),
      visibility |-> Some([miles |-> <<"1", "0">>, miles_float |-> Some(f),
                           meters_float |-> Some(16093)]),
      ceiling |-> Some([code |-> "BKN", text |-> "Broken", base_feet_agl |-> Some(c)]),
      clouds |-> Some(<<>>),
      temperature |-> Some([celsius |-> 20, fahrenheit |-> 68]),
      dewpoint |-> Some([celsius |-> 10, fahrenheit |-> 50]),
      humidity |-> Some([percent |-> 52]),
      barometer |-> Some([hg |-> Some(2992), hpa |-> 1013]),
      elevation |-> Some([feet |-> 1000, meters |-> 305]),
      flight_category |-> fc,
      remarks |-> Some(<<>>)] :
        o \in Timestamps, s \in Stations,
        f \in {50, 100, 300, 500, 1000}, c \in {400, 500, 1000, 3000},
        fc \in UpstreamCategories}

NoMetars == {[tag |-> "null"], [tag |-> "undefined"]}

\* category arguments: null, undefined, VFR MVFR IFR LIFR Unknown, the lower- and
\* mixed-case vfr mvfr Ifr lifr, N/A and the empty string
TagCategories ==
    {[tag |-> "null"], [tag |-> "undefined"]} \cup
    {[tag |-> "string", text |-> t] :
        t \in {<<"V", "F", "R">>, <<"M", "V", "F", "R">>, <<"I", "F", "R">>,
               <<"L", "I", "F", "R">>, <<"U", "n", "k", "n", "o", "w", "n">>,
               <<"v", "f", "r">>, <<"m", "v", "f", "r">>, <<"I", "f", "r">>,
               <<"l", "i", "f", "r">>, <<"N", "/", "A">>, <<>>}}

UtilCalls ==
    {[fn |-> "calculateReportAge", observed |-> o, now |-> o.ms + d] :
        o \in Timestamps, d \in Elapsed}
    \cup {[fn |-> "formatObservedTime", observed |-> o, tz |-> z] :
            o \in Timestamps, z \in TzOffsets}
    \cup {[fn |-> "formatWind", wind |-> w] : w \in Winds}
    \cup {[fn |-> "formatVisibility", visibility |-> v] : v \in Visibilities}
    \cup {[fn |-> "formatCeilingAndClouds", ceiling |-> c, clouds |-> cl] :
            c \in Ceilings, cl \in CloudLists}
    \cup {[fn |-> "formatTempDew", temp |-> t] : t \in Temperatures}
    \cup {[fn |-> "formatAltimeter", barometer |-> b] : b \in Barometers}
    \cup {[fn |-> "determineFlightCategory", visibility |-> v, ceiling |-> c] :
            v \in {x \in Visibilities :
                      IsPresent(x) => (x[1].miles = <<"3">>
                                       /\ ~IsPresent(x[1].meters_float))},
            c \in Ceilings}
    \cup {[fn |-> "decodeRemarks", remarks |-> r] : r \in Remarks}
    \cup {[fn |-> "getFlightCategoryTagType", category |-> c] : c \in TagCategories}
    \cup {[fn |-> "processMetarData", metar |-> m, now |-> 60000, tz |-> 0] :
            m \in NoMetars \cup Metars \cup VariedMetars}

----------------------------------------------------------------------------
(* The decoding functions applied to their inputs: Init draws a call, the   *)
(* action of the called function applies it.                                *)

NoCall == [fn |-> "none"]
NotReturned == [tag |-> "pending"]
Returned(v) == [tag |-> "returned", value |-> v]

\* the component as mounted: the initial values of its refs
ViewInit ==
    /\ icaoInput = <<>>
    /\ isLoadingMetar = FALSE
    /\ isLoadingLocation = FALSE
    /\ errorMessage = Absent
    /\ metarData = [tag |-> "null"]
    /\ nearbyAirports = <<>>
    /\ showNearbyAirports = FALSE
    /\ pending = [tag |-> "none"]
    /\ awaiting = 0
    /\ locating = [tag |-> "none"]
    /\ requests = 0

UtilInit ==
    /\ call \in UtilCalls
    /\ ret = NotReturned
    /\ apiVariant = "proxy"
    /\ apiKeySet = TRUE
    /\ ViewInit

Applies(fn) == call.fn = fn /\ ret.tag = "pending"

CallCalculateReportAge ==
    /\ Applies("calculateReportAge")
    /\ ret' = Returned(calculateReportAge(call.observed, call.now))
    /\ UNCHANGED <<call, viewVars>>

CallFormatObservedTime ==
    /\ Applies("formatObservedTime")
    /\ ret' = Returned(formatObservedTime(call.observed, call.tz))
    /\ UNCHANGED <<call, viewVars>>

CallFormatWind ==
    /\ Applies("formatWind")
    /\ ret' = Returned(formatWind(call.wind))
    /\ UNCHANGED <<call, viewVars>>

CallFormatVisibility ==
    /\ Applies("formatVisibility")
    /\ ret' = Returned(formatVisibility(call.visibility))
    /\ UNCHANGED <<call, viewVars>>

CallFormatCeilingAndClouds ==
    /\ Applies("formatCeilingAndClouds")
    /\ ret' = Returned(formatCeilingAndClouds(call.ceiling, call.clouds))
    /\ UNCHANGED <<call, viewVars>>

CallFormatTempDew ==
    /\ Applies("formatTempDew")
    /\ ret' = Returned(formatTempDew(call.temp))
    /\ UNCHANGED <<call, viewVars>>

CallFormatAltimeter ==
    /\ Applies("formatAltimeter")
    /\ ret' = Returned(formatAltimeter(call.barometer))
    /\ UNCHANGED <<call, viewVars>>

CallDetermineFlightCategory ==
    /\ Applies("determineFlightCategory")
    /\ ret' = Returned(determineFlightCategory(call.visibility, call.ceiling))
    /\ UNCHANGED <<call, viewVars>>

CallDecodeRemarks ==
    /\ Applies("decodeRemarks")
    /\ ret' = Returned(decodeRemarks(call.remarks))
    /\ UNCHANGED <<call, viewVars>>

CallProcessMetarData ==
    /\ Applies("processMetarData")
    /\ ret' = Returned(processMetarData(call.metar, call.now, call.tz))
    /\ UNCHANGED <<call, viewVars>>

CallGetFlightCategoryTagType ==
    /\ Applies("getFlightCategoryTagType")
    /\ ret' = Returned(getFlightCategoryTagType(call.category))
    /\ UNCHANGED <<call, viewVars>>

UtilNext ==
    \/ CallCalculateReportAge
    \/ CallFormatObservedTime
    \/ CallFormatWind
    \/ CallFormatVisibility
    \/ CallFormatCeilingAndClouds
    \/ CallFormatTempDew
    \/ CallFormatAltimeter
    \/ CallDetermineFlightCategory
    \/ CallDecodeRemarks
    \/ CallProcessMetarData
    \/ CallGetFlightCategoryTagType

SpecUtils == UtilInit /\ [][UtilNext]_vars

----------------------------------------------------------------------------
(* Data retrieval.  A promise settles as [tag |-> "resolve", data |-> body]  *)
(* or [tag |-> "reject", message |-> text].  What the network does with a    *)
(* request is an outcome [kind, ok, json]: kind "networkError" when fetch    *)
(* itself rejects, else "http" with response.ok and the parsed body (absent  *)
(* when the body is not JSON).                                               *)

Resolve(body) == [tag |-> "resolve", data |-> body]
Reject(message) == [tag |-> "reject", message |-> message]

\* the most network requests one run of the component issues
MaxRequests == 6

RECURSIVE TrimEnd(_)
TrimEnd(s) == IF Len(s) > 0 /\ s[Len(s)] = " " THEN TrimEnd(SubSeq(s, 1, Len(s) - 1))
              ELSE s

\* String.prototype.trim
trim(s) == TrimEnd(SkipSpaces(s))

\* `/metar/${icao.toUpperCase()}/decoded`
MetarEndpoint(icao) == <<"/metar/">> \o toUpperCase(icao) \o <<"/decoded">>

\* 'results' in data && data.results === 0
ZeroResults(body) == IsPresent(body.results) /\ body.results[1] = 0

\* errorData?.error, when it is a non-empty string
ErrorOf(json) == IF IsPresent(json) /\ TruthyStr(json[1].error)
                 THEN json[1].error ELSE Absent

\* fetchCheckWx (direct access) once the network has answered
fetchCheckWx(endpoint, outcome) ==
    IF outcome.kind = "networkError" THEN Reject(<<"Failed to fetch">>)
    ELSE IF ~outcome.ok
    THEN Reject(<<"API Error: ">>
                \o OrElse(ErrorOf(outcome.json), <<"Internal Server Error">>))
    ELSE IF ~IsPresent(outcome.json)
    THEN Reject(<<"Unexpected token < in JSON at position 0">>)
    ELSE IF ZeroResults(outcome.json[1]) /\ Includes(endpoint, <<"/metar/">>)
    THEN Reject(<<"No METAR data found for this station.">>)
    ELSE IF ZeroResults(outcome.json[1]) /\ Includes(endpoint, <<"/station/">>)
    THEN Reject(<<"No stations found for the given coordinates.">>)
    ELSE Resolve(outcome.json[1])

\* fetchViaProxy once the proxy function has answered
fetchViaProxy(endpoint, outcome) ==
    IF outcome.kind = "networkError" THEN Reject(<<"Failed to fetch">>)
    ELSE IF ~outcome.ok
    THEN Reject(OrElse(ErrorOf(outcome.json),
                       <<"Proxy request failed with status: ", "500", " ",
                         "Internal Server Error">>))
    ELSE IF ~IsPresent(outcome.json)
    THEN Reject(<<"Unexpected token < in JSON at position 0">>)
    ELSE Resolve(outcome.json[1])

\* the ICAO test asking for exactly four characters.
InvalidIcaoNotFour(icao) == Len(icao) # 4

\* !icao || icao.length < 3 || icao.length > 4
InvalidIcao(icao) == Len(icao) = 0 \/ Len(icao) < 3 \/ Len(icao) > 4

\* whether fetchMetar gets as far as calling fetch
IssuesRequest(variant, keySet, icao) ==
    /\ ~InvalidIcao(icao)
    /\ variant = "direct" => keySet

\* the endpoint of the network request fetchMetar issues, absent when it issues none
FetchMetarRequest(variant, keySet, icao) ==
    IF IssuesRequest(variant, keySet, icao) THEN Some(MetarEndpoint(icao)) ELSE Absent

\* fetchMetar of the bundled api module
fetchMetar(variant, keySet, icao, outcome) ==
    IF InvalidIcao(icao) THEN Reject(<<"Invalid ICAO code format.">>)
    ELSE IF variant = "direct"
    THEN IF ~keySet
         THEN Reject(<<"CheckWX API Key is missing. Please set VITE_CHECKWX_API_KEY in your .env file.">>)
         ELSE fetchCheckWx(MetarEndpoint(icao), outcome)
    ELSE fetchViaProxy(MetarEndpoint(icao), outcome)

\* the observations a METAR response carries
ResponseMetars ==
    {m \in VariedMetars :
        /\ m.observed = [kind |-> "isoZ", ms |-> 0]
        /\ m.station = Some([name |-> <<"Los Angeles Intl">>])
        /\ m.visibility[1].miles_float = Some(1000)
        /\ m.ceiling[1].base_feet_agl = Some(3000)
        /\ m.flight_category \in {Absent, Some("IFR")}}

MetarBodies ==
    {[results |-> r, data |-> d] :
        r \in {Absent, Some(0), Some(1)},
        d \in {Absent, Some(<<>>), Some(<<[tag |-> "null"]>>)}
              \cup {Some(<<m>>) : m \in ResponseMetars}}

ErrorBodies == {[error |-> Absent], [error |-> Some(<<"Station not found">>)]}

Outcomes ==
    {[kind |-> "networkError", ok |-> FALSE, json |-> Absent]}
    \cup {[kind |-> "http", ok |-> FALSE, json |-> j] :
            j \in {Absent} \cup {Some(b) : b \in ErrorBodies}}
    \cup {[kind |-> "http", ok |-> TRUE, json |-> j] :
            j \in {Absent} \cup {Some(b) : b \in MetarBodies}}

\* What the proxy function answers when its API key is not configured.
ProxyKeyMissing ==
    [kind |-> "http", ok |-> FALSE,
     json |-> Some([error |-> Some(<<"CheckWX API Key is not configured in Netlify environment variables">>)])]

\* the answers the network can give to the bundled api module
OutcomesFor(variant, keySet) ==
    IF variant = "proxy" /\ ~keySet
    THEN {[kind |-> "networkError", ok |-> FALSE, json |-> Absent], ProxyKeyMissing}
    ELSE Outcomes

----------------------------------------------------------------------------
(* The proxy function.  An event is [queryStringParameters |-> q] with q       *)
(* absent (null) or the parameters [endpoint |-> optional text].  What        *)
(* CheckWX does with the forwarded request is an upstream answer              *)
(* [kind, ok, status, json]: kind "networkError" when fetch rejects, else      *)
(* "http"; json is absent when the body is not JSON, [tag |-> "null"] for the  *)
(* JSON text null, else [tag |-> "object", error |-> optional text].  The      *)
(* handler's promise settles as [tag |-> "resolve", statusCode, body] or       *)
(* [tag |-> "reject", error].                                                  *)

HexDigits == {"0", "1", "2", "3", "4", "5", "6", "7", "8", "9",
              "A", "B", "C", "D", "E", "F", "a", "b", "c", "d", "e", "f"}

\* decodeURIComponent throws URIError on a % that two hexadecimal digits do not follow
MalformedEscape(s) ==
    \E i \in 1..Len(s) :
        /\ s[i] = "%"
        /\ ~(i + 2 <= Len(s) /\ s[i + 1] \in HexDigits /\ s[i + 2] \in HexDigits)

\* the character an escape of the inputs stands for: %2F /, %20 space, %3F ?
Unescaped(high, low) ==
    IF <<high, low>> \in {<<"2", "F">>, <<"2", "f">>} THEN "/"
    ELSE IF <<high, low>> = <<"2", "0">> THEN " "
    ELSE "?"

RECURSIVE decodeURIComponent(_)
\* decodeURIComponent of a text whose escapes are well formed
decodeURIComponent(s) ==
    IF Len(s) = 0 THEN <<>>
    ELSE IF s[1] = "%"
    THEN <<Unescaped(s[2], s[3])>> \o decodeURIComponent(SubSeq(s, 4, Len(s)))
    ELSE <<s[1]>> \o decodeURIComponent(Tail(s))

HandlerResolve(statusCode, body) ==
    [tag |-> "resolve", statusCode |-> statusCode, body |-> body]
HandlerReject(error) == [tag |-> "reject", error |-> error]

\* the catch block: status 500, whatever was thrown
HandlerCaught(message) ==
    HandlerResolve(500, [error |-> <<"Internal server error in proxy function">>,
                         details |-> message])

\* the try block once CheckWX has answered the request for targetUrl
HandlerTry(targetUrl, upstream) ==
    IF upstream.kind = "networkError"
    THEN HandlerCaught(<<"request to ">> \o targetUrl \o <<" failed">>)
    ELSE IF ~IsPresent(upstream.json)
    THEN HandlerCaught(<<"invalid json response body">>)
    ELSE IF ~upstream.ok
    THEN IF upstream.json[1].tag = "null"
         THEN HandlerCaught(TypeError)
         ELSE HandlerResolve(upstream.status,
                  [error |-> OrElse(upstream.json[1].error,
                                    <<"CheckWX API request failed with status ">>
                                    \o NumToString(upstream.status))])
    ELSE HandlerResolve(200, upstream.json[1])

\* exports.handler
handler(event, apiKey, upstream) ==
    IF ~IsPresent(event.queryStringParameters) THEN HandlerReject("TypeError")
    ELSE IF ~TruthyStr(event.queryStringParameters[1].endpoint)
    THEN HandlerResolve(400, [error |-> <<"Missing target endpoint parameter">>])
    ELSE IF ~TruthyStr(apiKey)
    THEN HandlerResolve(500, [error |-> <<"CheckWX API Key is not configured in Netlify environment variables">>])
    ELSE IF MalformedEscape(event.queryStringParameters[1].endpoint[1])
    THEN HandlerReject("URIError")
    ELSE HandlerTry(<<"https://api.checkwx.com">>
                    \o decodeURIComponent(event.queryStringParameters[1].endpoint[1]),
                    upstream)

\* endpoint parameters: none, "", "/metar/KLAX", "%2Fmetar%2FKLAX", "%", "/metar/%2",
\* "/metar/%ZZ"
EndpointParameters ==
    {Absent, Some(<<>>),
     Some(<<"/", "m", "e", "t", "a", "r", "/", "K", "L", "A", "X">>),
     Some(<<"%", "2", "F", "m", "e", "t", "a", "r", "%", "2", "F", "K", "L", "A", "X">>),
     Some(<<"%">>),
     Some(<<"/", "m", "e", "t", "a", "r", "/", "%", "2">>),
     Some(<<"/", "m", "e", "t", "a", "r", "/", "%", "Z", "Z">>)}

Events == {[queryStringParameters |-> Absent]}
          \cup {[queryStringParameters |-> Some([endpoint |-> e])] :
                  e \in EndpointParameters}

\* process.env.CHECKWX_API_KEY: unset, empty, set
ApiKeys == {Absent, Some(<<>>), Some(<<"key">>)}

UpstreamAnswers ==
    {[kind |-> "networkError", ok |-> FALSE, status |-> 0, json |-> Absent]}
    \cup {[kind |-> "http", ok |-> FALSE, status |-> st, json |-> j] :
            st \in {401, 404, 500},
            j \in {Absent, Some([tag |-> "null"]),
                   Some([tag |-> "object", error |-> Absent]),
                   Some([tag |-> "object", error |-> Some(<<"Unauthorized">>)])}}
    \cup {[kind |-> "http", ok |-> TRUE, status |-> 200, json |-> j] :
            j \in {Absent, Some([tag |-> "null"]),
                   Some([tag |-> "object", error |-> Absent])}}

\* the ICAO codes fetchMetar is called with: "", K, KL, LAX, klax, KLAX, KLAXX
IcaoCodes == {<<>>, <<"K">>, <<"K", "L">>, <<"L", "A", "X">>,
              <<"k", "l", "a", "x">>, <<"K", "L", "A", "X">>,
              <<"K", "L", "A", "X", "X">>}

ApiCalls ==
    {[fn |-> "handler", event |-> e, apiKey |-> k, upstream |-> u] :
        e \in Events, k \in ApiKeys, u \in UpstreamAnswers}
    \cup {[fn |-> "fetchMetar", variant |-> v, keySet |-> k, icao |-> i,
           outcome |-> o] :
            v \in {"direct", "proxy"}, k \in BOOLEAN, i \in IcaoCodes,
            o \in Outcomes}

\* The functions of the api modules and the proxy function applied to their
\* inputs: Init draws a call, the action of the called function applies it.
ApiInit ==
    /\ call \in ApiCalls
    /\ ret = NotReturned
    /\ apiVariant = "proxy"
    /\ apiKeySet = TRUE
    /\ ViewInit

CallHandler ==
    /\ Applies("handler")
    /\ ret' = Returned(handler(call.event, call.apiKey, call.upstream))
    /\ UNCHANGED <<call, viewVars>>

CallFetchMetar ==
    /\ Applies("fetchMetar")
    /\ ret' = Returned([request |-> FetchMetarRequest(call.variant, call.keySet,
                                                      call.icao),
                        settled |-> fetchMetar(call.variant, call.keySet,
                                               call.icao, call.outcome)])
    /\ UNCHANGED <<call, viewVars>>

ApiNext ==
    \/ CallHandler
    \/ CallFetchMetar

SpecApi == ApiInit /\ [][ApiNext]_vars

----------------------------------------------------------------------------
(* The MetarViewer component.  The load of the nearby airports is in          *)
(* locating: [tag |-> "none"], then "position" while the browser finds the    *)
(* position, "stations" while fetchNearbyStations is awaited, "checks" with   *)
(* the returned stations and one check per station while the per-station      *)
(* promises are awaited, and "done" or "failed" once the function has ended.  *)
(* A check is [step, metar, category, value]: step is "metar" or "category"   *)
(* while that fetch is awaited and "done" when the station's promise has      *)
(* fulfilled; metar and category hold the settled fetches and value the       *)
(* airport the promise fulfilled with (absent for null).  A station is        *)
(* [icao, miles], miles being position.distance.miles.                        *)

\* a fetch state that looks at the METAR load alone.
isFetchingMetarOnly == isLoadingMetar

isFetching == isLoadingMetar \/ isLoadingLocation

\* the texts a user types into the input
IcaoTexts == {<<>>, <<" ">>, <<"k", "l">>, <<"k", "l", "a", "x">>,
              <<"K", "L", "A", "X">>, <<" ", "k", "l", "a", "x", " ">>,
              <<"K", "L", "A", "X", "X">>, <<"L", "A", "X">>}

\* response.data[0]
FirstOf(data) == IF Len(data) > 0 THEN data[1] ELSE [tag |-> "undefined"]

\* metarData.value = processMetarData(response.data[0]) without the check after it.
GetMetarProcessedUnchecked(processed) ==
    IF processed.tag = "throw"
    THEN [metarData |-> [tag |-> "null"], thrown |-> Some(TypeError)]
    ELSE [metarData |-> processed, thrown |-> Absent]

\* metarData.value = processMetarData(response.data[0]) and the check after it
GetMetarProcessed(processed) ==
    IF processed.tag = "throw"
    THEN [metarData |-> [tag |-> "null"], thrown |-> Some(TypeError)]
    ELSE IF processed.tag = "null"
    THEN [metarData |-> processed,
          thrown |-> Some(<<"Failed to process METAR data.">>)]
    ELSE [metarData |-> processed, thrown |-> Absent]

\* the try block with response.results >= 0 for response.results > 0
GetMetarTryNonNegative(settled, icao) ==
    IF settled.tag = "reject"
    THEN [metarData |-> [tag |-> "null"], thrown |-> Some(settled.message)]
    ELSE IF IsPresent(settled.data.results) /\ settled.data.results[1] >= 0
    THEN IF ~IsPresent(settled.data.data)
         THEN [metarData |-> [tag |-> "null"], thrown |-> Some(TypeError)]
         ELSE GetMetarProcessed(
                  processMetarData(FirstOf(settled.data.data[1]), 60000, 0))
    ELSE [metarData |-> [tag |-> "null"],
          thrown |-> Some(<<"No METAR data found for ">>
                          \o toUpperCase(icao) \o <<".">>)]

\* the try block of getMetar once fetchMetar has settled: the new metarData and
\* the error, if one is thrown
GetMetarTry(settled, icao) ==
    IF settled.tag = "reject"
    THEN [metarData |-> [tag |-> "null"], thrown |-> Some(settled.message)]
    ELSE IF IsPresent(settled.data.results) /\ settled.data.results[1] > 0
    THEN IF ~IsPresent(settled.data.data)
         THEN [metarData |-> [tag |-> "null"], thrown |-> Some(TypeError)]
         ELSE GetMetarProcessed(
                  processMetarData(FirstOf(settled.data.data[1]), 60000, 0))
    ELSE [metarData |-> [tag |-> "null"],
          thrown |-> Some(<<"No METAR data found for ">>
                          \o toUpperCase(icao) \o <<".">>)]

\* error.message || 'An unknown error occurred fetching METAR.'
CaughtMessage(thrown) ==
    Some(OrElse(thrown, <<"An unknown error occurred fetching METAR.">>))

\* the loading flag cleared at the end of the try block alone.
LoadingUnlessThrown(thrown) == IsPresent(thrown)

\* finally { isLoadingMetar.value = false }: the flag after getMetar has ended,
\* whether or not its try block threw
LoadingAfterGetMetar(thrown) == FALSE

\* a call that has ended is no longer remembered once the next handler runs
Forget(load) == IF load.tag \in {"done", "failed"} THEN [tag |-> "none"] ELSE load

\* getMetar up to its await: resetState, the loading flag, the input, and the
\* request fetchMetar issues
GetMetarStart(icao) ==
    /\ errorMessage' = Absent
    /\ metarData' = [tag |-> "null"]
    /\ nearbyAirports' = <<>>
    /\ showNearbyAirports' = FALSE
    /\ isLoadingMetar' = TRUE
    /\ icaoInput' = icao
    /\ pending' = [tag |-> "getMetar", icao |-> icao,
                   request |-> IF IssuesRequest(apiVariant, apiKeySet, icao)
                               THEN Some(MetarEndpoint(icao)) ELSE Absent]
    /\ awaiting' = awaiting + 1
    /\ locating' = Forget(locating)
    /\ requests' = IF IssuesRequest(apiVariant, apiKeySet, icao)
                   THEN requests + 1 ELSE requests

\* the Get METAR button or Enter in the input: getMetar(icaoInput.trim().toUpperCase())
handleGetMetarClick ==
    /\ ~isFetching
    /\ requests < MaxRequests
    /\ LET icao == toUpperCase(trim(icaoInput))
       IN  IF Len(icao) = 0
           THEN UNCHANGED <<icaoInput, isLoadingMetar, errorMessage, metarData,
                            nearbyAirports, showNearbyAirports, pending, awaiting,
                            locating, requests>>
           ELSE GetMetarStart(icao)
    /\ UNCHANGED <<call, ret, apiVariant, apiKeySet, isLoadingLocation>>

\* a click on an airport of the list, which is rendered while showNearbyAirports
\* holds and the list is not empty: icaoInput.value = icao; getMetar(icao);
\* showNearbyAirports.value = false
handleAirportSelect ==
    /\ showNearbyAirports
    /\ Len(nearbyAirports) > 0
    /\ requests < MaxRequests
    /\ \E i \in 1..Len(nearbyAirports) :
         IF Len(nearbyAirports[i].icao) = 0
         THEN /\ icaoInput' = nearbyAirports[i].icao
              /\ showNearbyAirports' = FALSE
              /\ UNCHANGED <<isLoadingMetar, errorMessage, metarData, nearbyAirports,
                             pending, awaiting, locating, requests>>
         ELSE GetMetarStart(nearbyAirports[i].icao)
    /\ UNCHANGED <<call, ret, apiVariant, apiKeySet, isLoadingLocation>>

\* fetchMetar settles and getMetar runs to its end: try, catch, finally
getMetarSettles ==
    /\ awaiting > 0
    /\ pending.tag = "getMetar"
    /\ \E outcome \in OutcomesFor(apiVariant, apiKeySet) :
         \E try \in {GetMetarTry(fetchMetar(apiVariant, apiKeySet, pending.icao,
                                            outcome),
                                 pending.icao)} :
             /\ metarData' = try.metarData
             /\ errorMessage' = IF IsPresent(try.thrown)
                                THEN CaughtMessage(try.thrown)
                                ELSE errorMessage
             /\ isLoadingMetar' = LoadingAfterGetMetar(try.thrown)
             /\ pending' = [tag |-> "done", icao |-> pending.icao,
                            request |-> pending.request, outcome |-> outcome]
    /\ awaiting' = awaiting - 1
    /\ UNCHANGED <<call, ret, apiVariant, apiKeySet, icaoInput, isLoadingLocation,
                   nearbyAirports, showNearbyAirports, locating, requests>>

\* the most stations a nearby-stations response lists
MaxStations == 2

\* the airports CheckWX knows around the user
StationPool ==
    {[icao |-> <<"K", "S", "M", "O">>, miles |-> 3],
     [icao |-> <<"K", "L", "A", "X">>, miles |-> 8],
     [icao |-> <<"K", "B", "U", "R">>, miles |-> 8]}

\* the data of a nearby-stations response: distinct stations in any order
StationLists ==
    {s \in UNION {[1..n -> StationPool] : n \in 0..MaxStations} :
        \A i, j \in 1..Len(s) : i # j => s[i] # s[j]}

StationBodies ==
    {[results |-> Some(Len(s)), data |-> Some(s)] : s \in StationLists}
    \cup {[results |-> Some(1), data |-> Absent]}

\* the answers of the network to the nearby-stations request
StationOutcomes ==
    {[kind |-> "networkError", ok |-> FALSE, json |-> Absent],
     [kind |-> "http", ok |-> FALSE, json |-> Some([error |-> Absent])]}
    \cup {[kind |-> "http", ok |-> TRUE, json |-> Some(b)] : b \in StationBodies}

StationOutcomesFor(variant, keySet) ==
    IF variant = "proxy" /\ ~keySet
    THEN {[kind |-> "networkError", ok |-> FALSE, json |-> Absent], ProxyKeyMissing}
    ELSE StationOutcomes

\* the answers of the network to a station's METAR request; the check reads
\* results alone
StationMetarOutcomes ==
    {[kind |-> "networkError", ok |-> FALSE, json |-> Absent]}
    \cup {[kind |-> "http", ok |-> TRUE,
           json |-> Some([results |-> Some(r), data |-> Some(<<>>)])] : r \in {0, 1}}

\* CheckWxFlightCategoryResponse: data of CheckWxFlightCategory, whose
\* flight_category is a string or null
CategoryBodies ==
    {[results |-> Some(Len(d)), data |-> Some(d)] :
        d \in {<<>>,
               <<[flight_category |-> Absent]>>,
               <<[flight_category |-> Some(<<>>)]>>,
               <<[flight_category |-> Some(<<"VFR">>)]>>,
               <<[flight_category |-> Some(<<"IFR">>)]>>}}

\* the answers of the network to a station's flight-category request
CategoryOutcomes ==
    {[kind |-> "networkError", ok |-> FALSE, json |-> Absent]}
    \cup {[kind |-> "http", ok |-> TRUE, json |-> Some(b)] : b \in CategoryBodies}

\* `/station/lat/${latitude}/lon/${longitude}/radius/${radius}` and `?filter=${filter}`
StationsEndpoint ==
    <<"/station/", "lat/", "3", "4", "/lon/", "-", "1", "1", "8", "/radius/",
      "5", "0", "?filter=", "A">>

\* `/metar/${icao}/flight/category`
CategoryEndpoint(icao) == <<"/metar/">> \o icao \o <<"/flight/category">>

\* fetchNearbyStations of the bundled api module
fetchNearbyStations(variant, keySet, outcome) ==
    IF variant = "direct"
    THEN IF ~keySet
         THEN Reject(<<"CheckWX API Key is missing. Please set VITE_CHECKWX_API_KEY in your .env file.">>)
         ELSE fetchCheckWx(StationsEndpoint, outcome)
    ELSE fetchViaProxy(StationsEndpoint, outcome)

\* fetchFlightCategory of the bundled api module
fetchFlightCategory(variant, keySet, icao, outcome) ==
    IF variant = "direct"
    THEN IF ~keySet
         THEN Reject(<<"CheckWX API Key is missing. Please set VITE_CHECKWX_API_KEY in your .env file.">>)
         ELSE fetchCheckWx(CategoryEndpoint(icao), outcome)
    ELSE IF InvalidIcao(icao) THEN Reject(<<"Invalid ICAO code format.">>)
    ELSE fetchViaProxy(CategoryEndpoint(icao), outcome)

\* whether fetchFlightCategory gets as far as calling fetch
CategoryIssuesRequest(variant, keySet, icao) ==
    IF variant = "direct" THEN keySet ELSE ~InvalidIcao(icao)

\* what getCurrentPosition answers: a position, a GeolocationPositionError with
\* its code, or the TypeError of a browser without navigator.geolocation
PlainError == [tag |-> "error", geo |-> FALSE, code |-> Absent]

GeolocationOutcomes ==
    {[tag |-> "position"], PlainError}
    \cup {[tag |-> "error", geo |-> TRUE, code |-> Some(c)] : c \in 1..3}

\* error.PERMISSION_DENIED, error.POSITION_UNAVAILABLE, error.TIMEOUT: 1, 2, 3 on a
\* GeolocationPositionError, undefined on any other error
ErrorConstant(error, n) == IF error.geo THEN Some(n) ELSE Absent

\* the catch block of getLocationAndFindNearby
LocationCaught(error) ==
    IF error.code = ErrorConstant(error, 1) THEN <<"Geolocation permission denied.">>
    ELSE IF error.code = ErrorConstant(error, 2)
    THEN <<"Location information is unavailable.">>
    ELSE IF error.code = ErrorConstant(error, 3)
    THEN <<"Geolocation request timed out.">>
    ELSE <<"Error finding nearby stations. See console.">>

\* stationResponse?.data || []
StationsOf(body) == IF IsPresent(body.data) THEN body.data[1] ELSE <<>>

\* !metarResponse || metarResponse.results === 0
NoMetarFor(settled) == settled.tag = "reject" \/ settled.data.results = Some(0)

\* the test of the category response: data is a non-empty array whose first
\* entry has a truthy flight_category
HasCategory(settled) ==
    /\ settled.tag = "resolve"
    /\ IsPresent(settled.data.data)
    /\ Len(settled.data.data[1]) > 0
    /\ TruthyStr(settled.data.data[1][1].flight_category)

\* { ...station, flightCategory: category }
AirportOf(station, settled) ==
    [icao |-> station.icao, miles |-> station.miles,
     flightCategory |-> settled.data.data[1][1].flight_category[1]]

\* the settled results mapped to their values and the nulls filtered out
Fulfilled(checks) ==
    LET kept == SelectSeq(checks, LAMBDA c : IsPresent(c.value))
    IN  [i \in 1..Len(kept) |-> kept[i].value[1]]

\* the airports left in the order the stations were returned in.
KeepOrder(airports) == airports

RECURSIVE InsertByDistance(_, _)
InsertByDistance(sorted, airport) ==
    IF Len(sorted) = 0 THEN <<airport>>
    ELSE IF sorted[Len(sorted)].miles <= airport.miles THEN Append(sorted, airport)
    ELSE Append(InsertByDistance(SubSeq(sorted, 1, Len(sorted) - 1), airport),
                sorted[Len(sorted)])

\* .sort((a, b) => a.position.distance.miles - b.position.distance.miles), which
\* keeps the order of airports at the same distance
RECURSIVE SortByDistance(_)
SortByDistance(airports) ==
    IF Len(airports) = 0 THEN <<>>
    ELSE InsertByDistance(SortByDistance(SubSeq(airports, 1, Len(airports) - 1)),
                          airports[Len(airports)])

\* the rest of the try block once Promise.allSettled has fulfilled, and finally
LocationCompletes(stations, checks, airports) ==
    /\ nearbyAirports' = airports
    /\ showNearbyAirports' = IF Len(airports) > 0 THEN TRUE ELSE showNearbyAirports
    /\ errorMessage' = IF Len(airports) > 0 THEN errorMessage
                       ELSE Some(<<"No airports found within 50 miles.">>)
    /\ isLoadingLocation' = FALSE
    /\ locating' = [tag |-> "done", stations |-> stations, checks |-> checks]

\* the catch block and finally
LocationFails(error) ==
    /\ errorMessage' = Some(LocationCaught(error))
    /\ isLoadingLocation' = FALSE
    /\ locating' = [tag |-> "failed", error |-> error]
    /\ UNCHANGED <<nearbyAirports, showNearbyAirports>>

\* a station's promise has moved on, issuing so many requests; when it was the
\* last one to fulfil, Promise.allSettled fulfils and the function runs to its end
ChecksSettle(checks, issued) ==
    /\ requests' = requests + issued
    /\ IF \A i \in 1..Len(checks) : checks[i].step = "done"
       THEN LocationCompletes(locating.stations, checks,
                              SortByDistance(Fulfilled(checks)))
       ELSE /\ locating' = [locating EXCEPT !.checks = checks]
            /\ UNCHANGED <<nearbyAirports, showNearbyAirports, errorMessage,
                           isLoadingLocation>>

\* the location button: getLocationAndFindNearby up to its first await
getLocationAndFindNearby ==
    /\ ~isFetching
    /\ requests + 1 + 2 * MaxStations <= MaxRequests
    /\ isLoadingLocation' = TRUE
    /\ showNearbyAirports' = FALSE
    /\ nearbyAirports' = <<>>
    /\ errorMessage' = Absent
    /\ locating' = [tag |-> "position"]
    /\ pending' = Forget(pending)
    /\ UNCHANGED <<call, ret, apiVariant, apiKeySet, icaoInput, isLoadingMetar,
                   metarData, awaiting, requests>>

\* getCurrentPosition answers: on a position fetchNearbyStations is called, on an
\* error the catch block and finally run
geolocationSettles ==
    /\ locating.tag = "position"
    /\ \E geo \in GeolocationOutcomes :
         IF geo.tag = "error"
         THEN /\ LocationFails(geo)
              /\ UNCHANGED requests
         ELSE /\ locating' = [tag |-> "stations"]
              /\ requests' = IF apiVariant = "direct" => apiKeySet
                             THEN requests + 1 ELSE requests
              /\ UNCHANGED <<errorMessage, isLoadingLocation, nearbyAirports,
                             showNearbyAirports>>
    /\ UNCHANGED <<call, ret, apiVariant, apiKeySet, icaoInput, isLoadingMetar,
                   metarData, pending, awaiting>>

\* a station's check as its promise starts: fetchMetar(station.icao) is awaited
NewCheck == [step |-> "metar", metar |-> Absent, category |-> Absent, value |-> Absent]

\* fetchNearbyStations settles: the stations are mapped to their promises, each of
\* which calls fetchMetar; without stations the function runs to its end
fetchNearbyStationsSettles ==
    /\ locating.tag = "stations"
    /\ \E outcome \in StationOutcomesFor(apiVariant, apiKeySet) :
         \E settled \in {fetchNearbyStations(apiVariant, apiKeySet, outcome)} :
             IF settled.tag = "reject"
             THEN /\ LocationFails(PlainError)
                  /\ UNCHANGED requests
             ELSE \E stations \in {StationsOf(settled.data)} :
                      IF Len(stations) = 0
                      THEN /\ LocationCompletes(<<>>, <<>>, SortByDistance(<<>>))
                           /\ UNCHANGED requests
                      ELSE /\ locating' = [tag |-> "checks", stations |-> stations,
                                           checks |-> [i \in 1..Len(stations) |-> NewCheck]]
                           /\ requests' = requests + Cardinality(
                                  {i \in 1..Len(stations) :
                                      IssuesRequest(apiVariant, apiKeySet,
                                                    stations[i].icao)})
                           /\ UNCHANGED <<errorMessage, isLoadingLocation,
                                          nearbyAirports, showNearbyAirports>>
    /\ UNCHANGED <<call, ret, apiVariant, apiKeySet, icaoInput, isLoadingMetar,
                   metarData, pending, awaiting>>

\* a station's fetchMetar settles: without a METAR its promise fulfils with null,
\* else fetchFlightCategory is called
stationMetarSettles ==
    /\ locating.tag = "checks"
    /\ \E i \in 1..Len(locating.checks) :
         /\ locating.checks[i].step = "metar"
         /\ \E outcome \in StationMetarOutcomes :
              \E settled \in {fetchMetar(apiVariant, apiKeySet,
                                         locating.stations[i].icao, outcome)} :
                  IF NoMetarFor(settled)
                  THEN ChecksSettle(
                           [locating.checks EXCEPT ![i] =
                               [step |-> "done", metar |-> Some(settled),
                                category |-> Absent, value |-> Absent]], 0)
                  ELSE ChecksSettle(
                           [locating.checks EXCEPT ![i] =
                               [step |-> "category", metar |-> Some(settled),
                                category |-> Absent, value |-> Absent]],
                           IF CategoryIssuesRequest(apiVariant, apiKeySet,
                                                    locating.stations[i].icao)
                           THEN 1 ELSE 0)
    /\ UNCHANGED <<call, ret, apiVariant, apiKeySet, icaoInput, isLoadingMetar,
                   metarData, pending, awaiting>>

\* a station's fetchFlightCategory settles and its promise fulfils: with the
\* airport when the response carries a category, else with null
stationCategorySettles ==
    /\ locating.tag = "checks"
    /\ \E i \in 1..Len(locating.checks) :
         /\ locating.checks[i].step = "category"
         /\ \E outcome \in CategoryOutcomes :
              \E settled \in {fetchFlightCategory(apiVariant, apiKeySet,
                                                  locating.stations[i].icao,
                                                  outcome)} :
                  ChecksSettle(
                      [locating.checks EXCEPT ![i] =
                          [step |-> "done", metar |-> locating.checks[i].metar,
                           category |-> Some(settled),
                           value |-> IF HasCategory(settled)
                                     THEN Some(AirportOf(locating.stations[i], settled))
                                     ELSE Absent]], 0)
    /\ UNCHANGED <<call, ret, apiVariant, apiKeySet, icaoInput, isLoadingMetar,
                   metarData, pending, awaiting>>

\* the user edits the input (enabled unless a load is running); watch(icaoInput)
\* resets the state when a report or the airport list is shown
userInput ==
    /\ ~isFetching
    /\ \E text \in IcaoTexts :
         LET newValue == toUpperCase(text)
             airportJustSelected ==
                 \E i \in 1..Len(nearbyAirports) : nearbyAirports[i].icao = newValue
         IN  /\ newValue # icaoInput
             /\ icaoInput' = newValue
             /\ IF (metarData.tag # "null" \/ showNearbyAirports)
                   /\ ~airportJustSelected
                THEN /\ errorMessage' = Absent
                     /\ metarData' = [tag |-> "null"]
                     /\ nearbyAirports' = <<>>
                     /\ showNearbyAirports' = FALSE
                ELSE UNCHANGED <<errorMessage, metarData, nearbyAirports,
                                 showNearbyAirports>>
    /\ pending' = Forget(pending)
    /\ locating' = Forget(locating)
    /\ UNCHANGED <<call, ret, apiVariant, apiKeySet, isLoadingMetar,
                   isLoadingLocation, awaiting, requests>>

\* the error alert is shown and the user closes it
closeAlert ==
    /\ IsPresent(errorMessage)
    /\ ~isFetching
    /\ metarData.tag = "null"
    /\ ~showNearbyAirports
    /\ errorMessage' = Absent
    /\ pending' = Forget(pending)
    /\ locating' = Forget(locating)
    /\ UNCHANGED <<call, ret, apiVariant, apiKeySet, icaoInput, isLoadingMetar,
                   isLoadingLocation, metarData, nearbyAirports,
                   showNearbyAirports, awaiting, requests>>

Init ==
    /\ call = NoCall
    /\ ret = NotReturned
    /\ apiVariant \in {"direct", "proxy"}
    /\ apiKeySet \in BOOLEAN
    /\ ViewInit

Next ==
    \/ userInput
    \/ handleGetMetarClick
    \/ getMetarSettles
    \/ closeAlert
    \/ getLocationAndFindNearby
    \/ geolocationSettles
    \/ fetchNearbyStationsSettles
    \/ stationMetarSettles
    \/ stationCategorySettles
    \/ handleAirportSelect

Spec == Init /\ [][Next]_vars

\* every awaited fetch settles: the network answers or fails, and
\* getCurrentPosition is called with a timeout
Settling ==
    /\ WF_vars(getMetarSettles)
    /\ WF_vars(geolocationSettles)
    /\ WF_vars(fetchNearbyStationsSettles)
    /\ WF_vars(stationMetarSettles)
    /\ WF_vars(stationCategorySettles)

SpecSettling == Init /\ [][Next]_vars /\ Settling

----------------------------------------------------------------------------
(* Properties of the decoding functions, under SpecUtils *)

Ran(fn) == call.fn = fn /\ ret.tag = "returned"

\* an observation whose optional field f is given
Has(m, f) == IsPresent(m[f])

GivenVis == IsPresent(call.visibility) /\ IsPresent(call.visibility[1].miles_float)
GivenCeil == IsPresent(call.ceiling) /\ IsPresent(call.ceiling[1].base_feet_agl)

\* C1: determineFlightCategory returns VFR for every input with visibility >= 5
\* statute miles and ceiling >= 3000 ft, and its lower bounds are inclusive:
\* (5, 3000) gives VFR, (3, 1000) gives MVFR and (1, 500) gives IFR.
C1_VfrAndInclusiveBounds ==
    (Ran("determineFlightCategory") /\ GivenVis /\ GivenCeil) =>
        LET vis == call.visibility[1].miles_float[1]
            ceil == call.ceiling[1].base_feet_agl[1]
        IN  /\ (vis >= 500 /\ ceil >= 3000) => ret.value = "VFR"
            /\ (vis = 500 /\ ceil = 3000) => ret.value = "VFR"
            /\ (vis = 300 /\ ceil = 1000) => ret.value = "MVFR"
            /\ (vis = 100 /\ ceil = 500) => ret.value = "IFR"

\* determineFlightCategory has classified exactly 3 miles and 1000 ft as MVFR
C1_Witness ==
    /\ Ran("determineFlightCategory") /\ GivenVis /\ GivenCeil
    /\ call.visibility[1].miles_float[1] = 300
    /\ call.ceiling[1].base_feet_agl[1] = 1000
    /\ ret.value = "MVFR"

ProcessedObject == Ran("processMetarData") /\ call.metar.tag = "object"

\* C2: for every non-null observation whose upstream flight_category is present,
\* processMetarData's flightCategory equals that upstream value, whatever
\* determineFlightCategory derives from visibility and ceiling.
C2_UpstreamCategoryWins ==
    (ProcessedObject /\ Has(call.metar, "flight_category")) =>
        /\ ret.value.tag = "record"
        /\ ret.value.flightCategory = call.metar.flight_category[1]

\* an observation whose upstream category differs from the derived one has been
\* processed
C2_Witness ==
    /\ ProcessedObject /\ Has(call.metar, "flight_category")
    /\ determineFlightCategory(call.metar.visibility, call.metar.ceiling)
           # call.metar.flight_category[1]
    /\ ret.value.flightCategory = call.metar.flight_category[1]

\* C3: for every non-null observation, the flightCategory of the record returned
\* by processMetarData is one of VFR, MVFR, IFR, LIFR, Unknown.
C3_CategoryInRange ==
    ProcessedObject =>
        /\ ret.value.tag = "record"
        /\ ret.value.flightCategory \in FlightCategories

\* an observation without upstream category has been processed into a record with
\* a derived category
C3_Witness ==
    /\ ProcessedObject /\ ~Has(call.metar, "flight_category")
    /\ ret.value.flightCategory = "LIFR"

\* C4 as stated: for every remarks string that is present, the empty string
\* included, decodeRemarks(remarks).plainLanguage equals the input string verbatim.
C4_PlainLanguageVerbatim ==
    (Ran("decodeRemarks") /\ IsPresent(call.remarks)) =>
        ret.value.plainLanguage = call.remarks[1]

\* C4 as amended: for every non-empty remarks string, strings of unrecognized
\* tokens included, plainLanguage equals the input string verbatim; for the empty
\* string it is "No Remarks", as for absent remarks.
C4_PlainLanguageVerbatimNonEmpty ==
    (Ran("decodeRemarks") /\ IsPresent(call.remarks)) =>
        /\ Len(call.remarks[1]) > 0 => ret.value.plainLanguage = call.remarks[1]
        /\ Len(call.remarks[1]) = 0 => ret.value.plainLanguage = <<"No Remarks">>

\* remarks with two spaces in a row and no recognized token have been decoded
C4_Witness ==
    /\ Ran("decodeRemarks") /\ IsPresent(call.remarks)
    /\ Includes(call.remarks[1], <<" ", " ">>)
    /\ Len(ret.value.decoded) = 0
    /\ ret.value.plainLanguage = call.remarks[1]

\* the observation instant call.observed denotes, when it parses
ObservedParses == call.observed.kind \in {"isoZ", "isoNoZone"}

\* C5: calculateReportAge returns an integer >= 0 for every timestamp string and
\* every current time: an observation time later than now gives 0.
C5_AgeNeverNegative ==
    Ran("calculateReportAge") =>
        /\ ret.value \in Nat
        /\ (ObservedParses /\ call.observed.ms > call.now) => ret.value = 0

\* an observation at least 90 seconds in the future has been given age 0
C5_Witness ==
    /\ Ran("calculateReportAge")
    /\ ObservedParses
    /\ call.observed.ms - call.now >= 90000
    /\ ret.value = 0

OptionalFields == {"wind", "visibility", "ceiling", "clouds", "temperature",
                   "dewpoint", "humidity", "barometer", "elevation",
                   "flight_category", "remarks"}

\* C6: processMetarData returns null when the observation is null or undefined,
\* and for every non-null observation with any combination of the optional fields
\* absent it returns a record without throwing.
C6_NullOrRecord ==
    Ran("processMetarData") =>
        /\ call.metar.tag \in {"null", "undefined"} => ret.value.tag = "null"
        /\ call.metar.tag = "object" => ret.value.tag = "record"

\* an observation with every optional field absent has been processed into a record
C6_Witness ==
    /\ ProcessedObject
    /\ \A f \in OptionalFields : ~Has(call.metar, f)
    /\ ret.value.tag = "record"

\* C7: for every non-null observation, the record returned by processMetarData
\* carries a density-altitude display string, and that string is "N/A" whenever
\* elevation, temperature or altimeter setting is absent.
C7_DensityAltitudeCarried ==
    ProcessedObject =>
        /\ ret.value.tag = "record"
        /\ "densityAltitude" \in DOMAIN ret.value
        /\ (~Has(call.metar, "elevation") \/ ~Has(call.metar, "temperature")
            \/ ~Has(call.metar, "barometer"))
               => ret.value.densityAltitude = <<"N/A">>

CalmWind == /\ IsPresent(call.wind)
            /\ call.wind[1].degrees = 0
            /\ call.wind[1].speed_kts = 0

\* C9: formatWind returns exactly "Calm" for every wind input with degrees = 0 and
\* speed = 0, whether or not a gust value is present.
C9_CalmWind ==
    (Ran("formatWind") /\ CalmWind) => ret.value = <<"Calm">>

\* calm wind with a gust value has been formatted as "Calm"
C9_Witness ==
    /\ Ran("formatWind") /\ CalmWind
    /\ TruthyNum(call.wind[1].gust_kts)
    /\ ret.value = <<"Calm">>

TenOrMore == /\ IsPresent(call.visibility)
             /\ IsPresent(call.visibility[1].miles_float)
             /\ call.visibility[1].miles_float[1] >= 1000

\* C10 as stated: formatVisibility yields "10+ statute miles (Clear)" for every
\* visibility input with miles_float >= 10, regardless of the reported miles string.
C10_TenPlusExactly ==
    (Ran("formatVisibility") /\ TenOrMore) =>
        ret.value = <<"10+ statute miles (Clear)">>

\* C10 as amended: for every visibility input with miles_float >= 10, whatever the
\* reported miles string, formatVisibility yields "10+ statute miles (Clear)",
\* followed by " (<meters_float> meters)" when a non-zero meters_float is present
\* and by nothing otherwise.
C10_TenPlusThenMeters ==
    (Ran("formatVisibility") /\ TenOrMore) =>
        LET meters == call.visibility[1].meters_float
        IN  ret.value =
                <<"10+ statute miles (Clear)">>
                \o (IF IsPresent(meters) /\ meters[1] # 0
                    THEN <<" (">> \o NumToString(meters[1]) \o <<" meters)">>
                    ELSE <<>>)

\* exactly 10 miles, reported as "1/4", without meters, has been formatted
C10_Witness ==
    /\ Ran("formatVisibility") /\ TenOrMore
    /\ call.visibility[1].miles_float[1] = 1000
    /\ call.visibility[1].miles = <<"1", "/", "4">>
    /\ ~IsPresent(call.visibility[1].meters_float)
    /\ ret.value = <<"10+ statute miles (Clear)">>

\* the cloud layers of the call, none when the list is absent
CallLayers == IF IsPresent(call.clouds) THEN call.clouds[1] ELSE <<>>

\* the call gives a ceiling with a base height the code takes as given
GivenCeilingHeight ==
    IsPresent(call.ceiling) /\ TruthyNum(call.ceiling[1].base_feet_agl)

SameHeightAsCeiling(layer) ==
    layer.base_feet_agl = call.ceiling[1].base_feet_agl

CeilingEntry ==
    <<call.ceiling[1].text>> \o <<" at ">>
    \o NumToString(call.ceiling[1].base_feet_agl[1]) \o <<" ft AGL">>
    \o <<" (Ceiling)">>

\* the entries C11 describes: each layer at the ceiling's height annotated, the
\* ceiling appended when no layer is at its height
EntriesByHeight ==
    IF \E i \in 1..Len(CallLayers) : SameHeightAsCeiling(CallLayers[i])
    THEN [i \in 1..Len(CallLayers) |->
             IF SameHeightAsCeiling(CallLayers[i])
             THEN LayerStr(CallLayers[i]) \o <<" (Ceiling)">>
             ELSE LayerStr(CallLayers[i])]
    ELSE Append([i \in 1..Len(CallLayers) |-> LayerStr(CallLayers[i])],
                CeilingEntry)

\* C11: in formatCeilingAndClouds the ceiling annotates an existing cloud entry
\* with " (Ceiling)" exactly when the ceiling's base height equals that layer's
\* base height; when it equals no listed layer's height the ceiling is appended
\* as its own entry and no cloud entry is annotated.
C11_AnnotatesEqualHeight ==
    (Ran("formatCeilingAndClouds") /\ GivenCeilingHeight) =>
        ret.value = Join(EntriesByHeight, <<"; ">>)

\* the numeric visibility of the call cannot be read: no miles_float, and a miles
\* string that does not begin with a digit
VisibilityUnparsable ==
    /\ IsPresent(call.visibility)
    /\ ~IsPresent(call.visibility[1].miles_float)
    /\ LeadingDigits(call.visibility[1].miles) = <<>>

\* C12: every field formatter returns its fallback when its input is absent:
\* formatWind "Variable, Calm", formatVisibility "Not Reported" (also when the
\* numeric value is unparsable), formatTempDew and formatAltimeter "N/A", and
\* formatCeilingAndClouds "Clear below 12,000 ft" when there is no ceiling and the
\* cloud list is empty or absent.
C12_Fallbacks ==
    /\ (Ran("formatWind") /\ ~IsPresent(call.wind)) =>
           ret.value = <<"Variable, Calm">>
    /\ (Ran("formatVisibility")
        /\ (~IsPresent(call.visibility) \/ VisibilityUnparsable)) =>
           ret.value = <<"Not Reported">>
    /\ (Ran("formatTempDew") /\ ~IsPresent(call.temp)) => ret.value = <<"N/A">>
    /\ (Ran("formatAltimeter") /\ ~IsPresent(call.barometer)) =>
           ret.value = <<"N/A">>
    /\ (Ran("formatCeilingAndClouds") /\ ~IsPresent(call.ceiling)
        /\ Len(CallLayers) = 0) =>
           ret.value = <<"Clear below 12,000 ft">>

\* formatVisibility has answered a visibility whose miles string is "P6" and
\* whose miles_float is absent
C12_Witness ==
    /\ Ran("formatVisibility")
    /\ VisibilityUnparsable
    /\ call.visibility[1].miles = <<"P", "6">>
    /\ ret.value = <<"Not Reported">>

\* decodeRemarks has decoded a non-empty remarks string
DecodedRemarks == Ran("decodeRemarks") /\ TruthyStr(call.remarks)

\* the tokens of the remarks: the text between single spaces
CallParts == SplitOnSpace(call.remarks[1])

\* the entries of the decoded mapping under a key, and the value under it
EntriesOf(key) ==
    {i \in 1..Len(ret.value.decoded) : ret.value.decoded[i].key = key}
ValueOf(key) == ret.value.decoded[CHOOSE i \in EntriesOf(key) : TRUE].value

IsSlpToken(part) == StartsWith(part, <<"S", "L", "P">>)
IsTempToken(part) == Len(part) = 9 /\ part[1] = "T"

SlpIndexes == {i \in 1..Len(CallParts) : IsSlpToken(CallParts[i])}
TempIndexes == {i \in 1..Len(CallParts) : IsTempToken(CallParts[i])}
LastOf(indexes) == CHOOSE i \in indexes : \A j \in indexes : j <= i
LastSlp == CallParts[LastOf(SlpIndexes)]
LastTemp == CallParts[LastOf(TempIndexes)]

\* d / 10 + 1000 for d < 500, d / 10 + 900 otherwise, to one decimal place
SlpHectopascals(d) ==
    NatToString((d \div 10) + (IF d < 500 THEN 1000 ELSE 900))
    \o <<".", DigitChars[(d % 10) + 1], " hPa">>

\* C13: for every remarks token SLP followed only by digits with integer value d
\* (the last SLP token of the string, which is the one the mapping keeps),
\* SeaLevelPressure is d/10 + 1000 hPa when d < 500 and d/10 + 900 hPa when
\* d >= 500, to one decimal place: SLP123 gives "1012.3 hPa", SLP876 gives
\* "987.6 hPa".
C13_SeaLevelPressure ==
    (DecodedRemarks /\ SlpIndexes # {} /\ IsDigitRun(SubSeq(LastSlp, 4, Len(LastSlp)))) =>
        /\ EntriesOf("SeaLevelPressure") # {}
        /\ ValueOf("SeaLevelPressure")
               = SlpHectopascals(DigitsValue(SubSeq(LastSlp, 4, Len(LastSlp))))
        /\ LastSlp = <<"S", "L", "P", "1", "2", "3">> =>
               ValueOf("SeaLevelPressure") = <<"1", "0", "1", "2", ".", "3", " hPa">>
        /\ LastSlp = <<"S", "L", "P", "8", "7", "6">> =>
               ValueOf("SeaLevelPressure") = <<"9", "8", "7", ".", "6", " hPa">>

\* the token SLP500, on the threshold, has been decoded to 950.0 hPa
C13_Witness ==
    /\ DecodedRemarks
    /\ call.remarks[1] = <<"S", "L", "P", "5", "0", "0">>
    /\ ValueOf("SeaLevelPressure") = <<"9", "5", "0", ".", "0", " hPa">>

\* characters 2-4 and 6-8 of a 9-character token are decimal digits
DigitMagnitudes(part) ==
    AllDigits(SubSeq(part, 3, 5)) /\ AllDigits(SubSeq(part, 7, 9))

\* three digits read as tenths of a degree, to one decimal place
TenthsOfDegree(ds) ==
    NatToString(10 * DigitValue(ds[1]) + DigitValue(ds[2])) \o <<".", ds[3]>>

\* "-" exactly when the sign character is '1'
SignOf(c) == IF c = "1" THEN <<"-">> ELSE <<>>

\* where the dewpoint begins in a PreciseTempDewpoint text
DewpointAt(text) == CHOOSE k \in 1..Len(text) : text[k] = "°C, Dewpoint: "

\* C14 as it stands, for every 9-character token starting with T: the temperature
\* is rendered negative exactly when the character at offset 1 is '1', the
\* dewpoint exactly when the character at offset 5 is '1'.
C14_SignsForEveryToken ==
    (DecodedRemarks /\ TempIndexes # {}) =>
        LET text == ValueOf("PreciseTempDewpoint")
        IN  /\ (text[2] = "-") <=> (LastTemp[2] = "1")
            /\ (text[DewpointAt(text) + 1] = "-") <=> (LastTemp[6] = "1")

\* C14: for every 9-character remarks token starting with T whose characters 2-4
\* and 6-8 are digits, the temperature is rendered negative exactly when the
\* character at offset 1 is '1' and the dewpoint exactly when the character at
\* offset 5 is '1', with magnitudes taken from characters 2-4 and 6-8 as tenths
\* of a degree.
C14_SignsAndTenthsOfDigits ==
    (DecodedRemarks /\ TempIndexes # {} /\ DigitMagnitudes(LastTemp)) =>
        ValueOf("PreciseTempDewpoint")
            = <<"Temp: ">> \o SignOf(LastTemp[2])
              \o TenthsOfDegree(SubSeq(LastTemp, 3, 5))
              \o <<"°C, Dewpoint: ">> \o SignOf(LastTemp[6])
              \o TenthsOfDegree(SubSeq(LastTemp, 7, 9)) \o <<"°C">>

\* the token T10280067 has been decoded: temperature negative, dewpoint not
C14_Witness ==
    /\ DecodedRemarks
    /\ call.remarks[1] = <<"T", "1", "0", "2", "8", "0", "0", "6", "7">>
    /\ ValueOf("PreciseTempDewpoint")
           = <<"Temp: ", "-", "2", ".", "8", "°C, Dewpoint: ", "6", ".", "7", "°C">>

\* the remarks string whose only token is T01280067
OnlyT01280067 ==
    DecodedRemarks /\ call.remarks[1] = <<"T", "0", "1", "2", "8", "0", "0", "6", "7">>

\* C15 as it stands: decoding a remarks string whose only token is T01280067
\* yields a PreciseTempDewpoint entry that contains
\* "Temp: -12.8°C, Dewpoint: 6.7°C".
C15_NegativeTemperature ==
    OnlyT01280067 =>
        /\ EntriesOf("PreciseTempDewpoint") # {}
        /\ Includes(ValueOf("PreciseTempDewpoint"),
                    <<"Temp: ", "-", "1", "2", ".", "8", "°C, Dewpoint: ",
                      "6", ".", "7", "°C">>)

\* C15: decoding a remarks string whose only token is T01280067 yields a
\* PreciseTempDewpoint entry that is "Temp: 12.8°C, Dewpoint: 6.7°C": the sign
\* character '0' stands for a temperature that is not negative.
C15_PositiveTemperature ==
    OnlyT01280067 =>
        /\ EntriesOf("PreciseTempDewpoint") # {}
        /\ ValueOf("PreciseTempDewpoint")
               = <<"Temp: ", "1", "2", ".", "8", "°C, Dewpoint: ", "6", ".", "7", "°C">>

\* T01280067 alone has been decoded into a mapping of one entry
C15_Witness ==
    /\ OnlyT01280067
    /\ Len(ret.value.decoded) = 1
    /\ ret.value.decoded[1].key = "PreciseTempDewpoint"

PeakWindGroup == PeakWindPrefix \o <<"2", "8", "0", "4", "5", "/", "1", "5", "1", "5">>
VariableVisGroup == VisPrefix \o <<"1", "/", "2", "V", "2">>

\* C16: a remarks string that contains a peak-wind group such as
\* "PK WND 28045/1515" or a variable-visibility group such as "VIS 1/2V2" is
\* decoded into a PeakWind entry, respectively a VariableVisibility entry.
C16_GroupsDecoded ==
    DecodedRemarks =>
        /\ Includes(call.remarks[1], PeakWindGroup) => EntriesOf("PeakWind") # {}
        /\ Includes(call.remarks[1], VariableVisGroup) =>
               EntriesOf("VariableVisibility") # {}

RecognizedCategories ==
    {<<"V", "F", "R">>, <<"M", "V", "F", "R">>, <<"I", "F", "R">>,
     <<"L", "I", "F", "R">>}

\* C17 as it stands: getFlightCategoryTagType returns the tag 'default' for every
\* category that is absent (null / undefined) or not one of VFR, MVFR, IFR, LIFR.
C17_UnrecognizedGetsDefault ==
    (Ran("getFlightCategoryTagType")
     /\ (call.category.tag = "string" => call.category.text \notin RecognizedCategories)) =>
        ret.value = "default"

\* C17: getFlightCategoryTagType returns 'info', the value of its default branch,
\* for every category that is absent (null / undefined) or, once upper-cased, not
\* one of VFR, MVFR, IFR, LIFR; it never returns 'default'.
C17_UnrecognizedGetsInfo ==
    Ran("getFlightCategoryTagType") =>
        /\ (call.category.tag = "string" =>
                toUpperCase(call.category.text) \notin RecognizedCategories) =>
               ret.value = "info"
        /\ ret.value # "default"

\* the tag type of an undefined category has been asked for
C17_Witness ==
    /\ Ran("getFlightCategoryTagType")
    /\ call.category.tag = "undefined"
    /\ ret.value = "info"

\* C18: determineFlightCategory never returns Unknown for numeric inputs: for
\* every numeric visibility and ceiling height, the defaults 99 and 99999 of
\* absent fields included, the result is one of VFR, MVFR, IFR, LIFR.
C18_NeverUnknown ==
    Ran("determineFlightCategory") => ret.value \in {"VFR", "MVFR", "IFR", "LIFR"}

\* a visibility of 3 miles under a ceiling of 400 ft has been categorised by the
\* last test of the chain
C18_Witness ==
    /\ Ran("determineFlightCategory") /\ GivenVis /\ GivenCeil
    /\ call.visibility[1].miles_float[1] = 300
    /\ call.ceiling[1].base_feet_agl[1] = 400
    /\ ret.value = "LIFR"

\* what a token decodes to on its own
AloneDecoded(part) == DecodePart(<<>>, part)

DecodedKeys == {"AutomatedObservationType", "SeaLevelPressure",
                "PreciseTempDewpoint", "PeakWind", "VariableVisibility"}

\* C19: decodeRemarks is last-match-wins per category key: when a remarks string
\* holds several tokens of the same category the decoded mapping has one entry
\* for that key, holding the decoding of the last such token in the string.
C19_LastMatchWins ==
    DecodedRemarks =>
        LET parts == CallParts
            alone == [i \in 1..Len(parts) |-> AloneDecoded(parts[i])]
        IN  \A key \in DecodedKeys :
                LET indexes == {i \in 1..Len(parts) :
                                   Len(alone[i]) = 1 /\ alone[i][1].key = key}
                IN  IF indexes = {} THEN EntriesOf(key) = {}
                    ELSE /\ Cardinality(EntriesOf(key)) = 1
                         /\ ValueOf(key) = alone[LastOf(indexes)][1].value

\* "SLP123 AO1 SLP876" has been decoded: one SeaLevelPressure entry, of SLP876
C19_Witness ==
    /\ DecodedRemarks
    /\ CallParts = <<<<"S", "L", "P", "1", "2", "3">>, <<"A", "O", "1">>,
                     <<"S", "L", "P", "8", "7", "6">>>>
    /\ Cardinality(EntriesOf("SeaLevelPressure")) = 1
    /\ ValueOf("SeaLevelPressure") = <<"9", "8", "7", ".", "6", " hPa">>

\* the rules whose condition a token meets
RulesHolding(part) == {i \in 1..Len(RuleOrder) : RuleHolds(RuleOrder[i], part)}

\* an order of rules read backwards
Backwards(order) == [i \in 1..Len(order) |-> order[Len(order) + 1 - i]]

\* C20: the remark rules are mutually exclusive: every token meets at most one of
\* the rule conditions, so the order in which the rules are tried does not change
\* the decoded mapping (tried last rule first, every pair of rules is tried the
\* other way round).
C20_RulesExclusive ==
    DecodedRemarks =>
        LET parts == CallParts
        IN  /\ \A i \in 1..Len(parts) : Cardinality(RulesHolding(parts[i])) <= 1
            /\ DecodePartsIn(Backwards(RuleOrder), <<>>, parts) = ret.value.decoded

\* "AO2 SLP123 T01280067" has been decoded: three tokens, three different rules
C20_Witness ==
    /\ DecodedRemarks
    /\ Len(CallParts) = 3
    /\ \A i \in 1..3 : Cardinality(RulesHolding(CallParts[i])) = 1
    /\ Cardinality(UNION {RulesHolding(CallParts[i]) : i \in 1..3}) = 3
    /\ Len(ret.value.decoded) = 3

\* C21: for every remarks token that starts with SLP and whose remainder is not a
\* non-empty run of digits, the bare token SLP included (the last SLP token of
\* the string, which is the one the mapping keeps), decodeRemarks sets
\* SeaLevelPressure to an unrecognized-format note that echoes the raw token, and
\* does not throw.
C21_UnknownFormatEchoesToken ==
    (DecodedRemarks /\ SlpIndexes # {}
     /\ ~IsDigitRun(SubSeq(LastSlp, 4, Len(LastSlp)))) =>
        /\ Cardinality(EntriesOf("SeaLevelPressure")) = 1
        /\ ValueOf("SeaLevelPressure") = <<"Unknown format (">> \o LastSlp \o <<")">>

\* the bare token SLP has been decoded
C21_Witness ==
    /\ DecodedRemarks
    /\ call.remarks[1] = <<"S", "L", "P">>
    /\ ValueOf("SeaLevelPressure") = <<"Unknown format (", "S", "L", "P", ")">>

\* timestamps that are no date once they end with the UTC marker
UnparsableKinds == {"isoOffset", "garbage", "garbageZ"}

\* C22: for every observation timestamp that cannot be parsed after the UTC marker
\* is appended, calculateReportAge returns 0 and formatObservedTime returns
\* "Invalid Date", so processMetarData returns a record with reportAgeMinutes = 0
\* and observedTime = "Invalid Date" instead of failing.
C22_UnparsableTimestamp ==
    /\ (Ran("calculateReportAge") /\ call.observed.kind \in UnparsableKinds) =>
           ret.value = 0
    /\ (Ran("formatObservedTime") /\ call.observed.kind \in UnparsableKinds) =>
           ret.value = <<"Invalid Date">>
    /\ (ProcessedObject /\ call.metar.observed.kind \in UnparsableKinds) =>
           /\ ret.value.tag = "record"
           /\ ret.value.reportAgeMinutes = 0
           /\ ret.value.observedTime = <<"Invalid Date">>

\* an observation whose timestamp carries an offset has been processed
C22_Witness ==
    /\ ProcessedObject
    /\ call.metar.observed.kind = "isoOffset"
    /\ ret.value.tag = "record"
    /\ ret.value.reportAgeMinutes = 0
    /\ ret.value.observedTime = <<"Invalid Date">>

\* C28: the two category-to-style mappings agree: for every category value the
\* detail view shows a tag for, the tag type getFlightCategoryTagType returns
\* equals the tag type the inline mapping of the detail view gives.
C28_MappingsAgree ==
    (Ran("getFlightCategoryTagType") /\ detailTagType(call.category) # "none") =>
        ret.value = detailTagType(call.category)

----------------------------------------------------------------------------
(* Properties of the api modules and the proxy function, under SpecApi *)

\* C27: the proxy handler resolves to a response object with a statusCode for
\* every incoming event (missing query parameters, missing endpoint, missing API
\* key, malformed percent-encoding in the endpoint, upstream failure, non-JSON
\* upstream body); it never rejects or throws.
C27_HandlerAlwaysResolves ==
    Ran("handler") =>
        /\ ret.value.tag = "resolve"
        /\ ret.value.statusCode \in Nat

InvalidIcaoMessage == <<"Invalid ICAO code format.">>
ApiKeyMissingMessage ==
    <<"CheckWX API Key is missing. Please set VITE_CHECKWX_API_KEY in your .env file.">>

\* the code is empty, shorter than 3 or longer than 4 characters
CodeOutOfRange == Len(call.icao) = 0 \/ Len(call.icao) < 3 \/ Len(call.icao) > 4

DecodedMetarOfUpper == <<"/metar/">> \o toUpperCase(call.icao) \o <<"/decoded">>

\* C29 as it stands: fetchMetar rejects with an invalid-ICAO error and issues no
\* network request for every ICAO code that is empty, shorter than 3 or longer
\* than 4 characters; for every other code it requests the decoded METAR of the
\* upper-cased code.
C29_RequestsEveryOtherCode ==
    Ran("fetchMetar") =>
        IF CodeOutOfRange
        THEN /\ ret.value.settled = Reject(InvalidIcaoMessage)
             /\ ret.value.request = Absent
        ELSE ret.value.request = Some(DecodedMetarOfUpper)

\* C29: fetchMetar rejects with an invalid-ICAO error and issues no network
\* request for every ICAO code that is empty, shorter than 3 or longer than 4
\* characters; for every other code it requests the decoded METAR of the
\* upper-cased code, except in the direct variant without an API key, where it
\* rejects with the key-missing error and issues no request either.
C29_RequestsUnlessKeyMissing ==
    Ran("fetchMetar") =>
        IF CodeOutOfRange
        THEN /\ ret.value.settled = Reject(InvalidIcaoMessage)
             /\ ret.value.request = Absent
        ELSE IF call.variant = "direct" /\ ~call.keySet
        THEN /\ ret.value.settled = Reject(ApiKeyMissingMessage)
             /\ ret.value.request = Absent
        ELSE ret.value.request = Some(DecodedMetarOfUpper)

\* fetchMetar has been called with the lower-case code klax through the proxy
C29_Witness ==
    /\ Ran("fetchMetar")
    /\ call.variant = "proxy"
    /\ call.icao = <<"k", "l", "a", "x">>
    /\ ret.value.request = Some(<<"/metar/", "K", "L", "A", "X", "/decoded">>)

----------------------------------------------------------------------------
(* Properties of the component, under Spec *)

\* getMetar has just finished on a response that parsed and reports zero results
FinishedOnZeroResults ==
    /\ pending.tag = "done"
    /\ IsPresent(pending.request)
    /\ pending.outcome.kind = "http"
    /\ pending.outcome.ok
    /\ IsPresent(pending.outcome.json)
    /\ pending.outcome.json[1].results = Some(0)

NotFoundMessages == {"No METAR data found for ", "No METAR data found for this station."}

\* C8: a METAR response with zero results is never turned into a decoded record:
\* after getMetar finishes on such a response, metarData is null and errorMessage
\* holds a not-found message, for both the direct and the proxy variants.
C8_ZeroResultsNotFound ==
    FinishedOnZeroResults =>
        /\ metarData.tag = "null"
        /\ IsPresent(errorMessage)
        /\ errorMessage[1][1] \in NotFoundMessages

\* through the proxy, getMetar has finished on a response with zero results that
\* nevertheless carries an observation
C8_Witness ==
    /\ FinishedOnZeroResults
    /\ apiVariant = "proxy"
    /\ IsPresent(pending.outcome.json[1].data)
    /\ Len(pending.outcome.json[1].data[1]) > 0
    /\ pending.outcome.json[1].data[1][1].tag = "object"
    /\ metarData.tag = "null"
    /\ errorMessage = Some(<<"No METAR data found for ", "K", "L", "A", "X", ".">>)

\* getMetar has just finished; its fetch was answered with a response that
\* parsed, reports results > 0 and carries an observation
FinishedOnRecord ==
    /\ pending.tag = "done"
    /\ IsPresent(pending.request)
    /\ pending.outcome.kind = "http"
    /\ pending.outcome.ok
    /\ IsPresent(pending.outcome.json)
    /\ IsPresent(pending.outcome.json[1].results)
    /\ pending.outcome.json[1].results[1] > 0
    /\ IsPresent(pending.outcome.json[1].data)
    /\ Len(pending.outcome.json[1].data[1]) > 0
    /\ pending.outcome.json[1].data[1][1].tag = "object"

\* getMetar has just finished on a failure: no request went out, the fetch was
\* rejected, the response reports no results, or its record is missing or null
FinishedOnFailure ==
    /\ pending.tag = "done"
    /\ \/ ~IsPresent(pending.request)
       \/ pending.outcome.kind = "networkError"
       \/ ~pending.outcome.ok
       \/ ~IsPresent(pending.outcome.json)
       \/ ~IsPresent(pending.outcome.json[1].results)
       \/ pending.outcome.json[1].results[1] <= 0
       \/ ~IsPresent(pending.outcome.json[1].data)
       \/ Len(pending.outcome.json[1].data[1]) = 0
       \/ pending.outcome.json[1].data[1][1].tag # "object"

\* C24: when a getMetar call with a non-empty ICAO finishes, exactly one of
\* metarData and errorMessage is non-null: a successful fetch with a decodable
\* record leaves metarData set and errorMessage null, and every failure (rejected
\* fetch, zero results, undecodable record) leaves metarData null and errorMessage
\* set.
C24_ReportOrError ==
    /\ pending.tag = "done" =>
           /\ Len(pending.icao) > 0
           /\ (metarData.tag # "null") # IsPresent(errorMessage)
    /\ FinishedOnRecord => metarData.tag = "record" /\ errorMessage = Absent
    /\ FinishedOnFailure => metarData.tag = "null" /\ IsPresent(errorMessage)

\* getMetar has finished on a response whose first record is null: the record
\* does not decode, metarData stays null and the error says so
C24_Witness ==
    /\ pending.tag = "done"
    /\ IsPresent(pending.request)
    /\ pending.outcome.ok
    /\ IsPresent(pending.outcome.json)
    /\ pending.outcome.json[1].results = Some(1)
    /\ pending.outcome.json[1].data = Some(<<[tag |-> "null"]>>)
    /\ metarData.tag = "null"
    /\ errorMessage = Some(<<"Failed to process METAR data.">>)

\* getLocationAndFindNearby is between its first await and its end
LocationInFlight == locating.tag \in {"position", "stations", "checks"}

\* C25: under the actions the UI enables, at most one load is in flight:
\* isLoadingMetar and isLoadingLocation are never both true, no second getMetar
\* starts while one is awaiting its response, and no getMetar awaits while
\* getLocationAndFindNearby is under way.
C25_OneLoadInFlight ==
    /\ ~(isLoadingMetar /\ isLoadingLocation)
    /\ awaiting <= 1
    /\ ~(awaiting > 0 /\ LocationInFlight)
    /\ awaiting > 0 => isLoadingMetar
    /\ LocationInFlight => isLoadingLocation

\* a getMetar started from the airport list awaits its response: the list it was
\* picked from is hidden and no location load runs
C25_Witness ==
    /\ awaiting = 1
    /\ isLoadingMetar
    /\ pending.tag = "getMetar"
    /\ pending.icao = <<"K", "B", "U", "R">>
    /\ ~showNearbyAirports
    /\ ~isLoadingLocation

\* the METAR fetch of a station's check gave results > 0
MetarGiven(check) ==
    /\ IsPresent(check.metar)
    /\ check.metar[1].tag = "resolve"
    /\ IsPresent(check.metar[1].data.results)
    /\ check.metar[1].data.results[1] > 0

\* the flight-category fetch of a station's check gave a non-empty category
CategoryGiven(check) ==
    /\ IsPresent(check.category)
    /\ check.category[1].tag = "resolve"
    /\ IsPresent(check.category[1].data.data)
    /\ Len(check.category[1].data.data[1]) > 0
    /\ IsPresent(check.category[1].data.data[1][1].flight_category)
    /\ Len(check.category[1].data.data[1][1].flight_category[1]) > 0

\* the returned stations that both fetches succeeded for
Qualifying ==
    {i \in 1..Len(locating.stations) :
        MetarGiven(locating.checks[i]) /\ CategoryGiven(locating.checks[i])}

----------------------------------------------------------------------------
(* Properties of the component when every awaited fetch settles, under      *)
(* SpecSettling *)

\* C23: every started load eventually ends: after getMetar or
\* getLocationAndFindNearby is invoked and its fetches settle, the flag
\* isLoadingMetar or isLoadingLocation is false again, on success and on error, so
\* isFetching does not stay true.
C23_LoadsEnd ==
    /\ isLoadingMetar ~> ~isLoadingMetar
    /\ isLoadingLocation ~> ~isLoadingLocation
    /\ isFetching ~> ~isFetching

\* a getMetar whose fetch was rejected by the network has ended with the flag
\* cleared and the error shown
C23_Witness ==
    /\ pending.tag = "done"
    /\ IsPresent(pending.request)
    /\ pending.outcome.kind = "networkError"
    /\ ~isLoadingMetar
    /\ ~isFetching
    /\ errorMessage = Some(<<"Failed to fetch">>)

====
